---- MODULE Spec2Model ----
(***************************************************************************)
(* The ingestion script (src/ingest.py): paragraph extraction, merging of  *)
(* short paragraphs, author classification, embedding and upsert of the    *)
(* chunks, the export to JSON; and the search front-end (src/app.py).      *)
(*                                                                         *)
(* A text is a sequence of one-character strings, so that strip(), split() *)
(* lower(), replace() and the f-string formatting of the chunk identifier  *)
(* are computed character by character, as Python computes them.           *)
(***************************************************************************)
EXTENDS Integers, Sequences, FiniteSets, TLC

VARIABLES
    \* extract_paragraphs_from_docx (src/ingest.py)
    file_name,            \* Path(file_path).name of the document being processed
    doc_paragraphs,       \* doc.paragraphs: the texts of the document, in order
    min_words,            \* the local min_words of extract_paragraphs_from_docx
    pc,                   \* position in extract_paragraphs_from_docx
    k,                    \* index of the enumerate() loop over doc.paragraphs
    raw_paragraphs,       \* list of {"text", "original_id"}
    i,                    \* cursor of the merge loop
    combined_paragraphs,  \* list of the chunks appended so far
    consumed,             \* combined_ids of each appended chunk, in order
    \* the script run: __main__, main, export_paragraphs_to_json (src/ingest.py)
    export_json,          \* args.export_json is given and not empty
    input_dir,            \* args.input_dir: "corpus" or "corpus_indexed"
    have_keys,            \* st.secrets holds both API keys
    mpc,                  \* position in the script
    confirmation,         \* the answers read at the prompt of main, stripped and lowered
    corpus_dir,           \* the .docx files of ./corpus
    indexed_dir,          \* the .docx files of ./corpus_indexed
    docx_files,           \* the list the script iterates over
    file_index,           \* index in docx_files of the document at hand
    store,                \* ids of the vectors the index holds
    paragraphs,           \* number of chunks extracted from the document at hand
    para_index,           \* position of ingest_paragraphs in its list of chunks
    vectors,              \* the list ingest_paragraphs builds, as chunk positions
    batch_start,          \* start of the batch to upsert: i of range(0, len, batch_size)
    embed_failed,         \* chunks of the document at hand whose embedding raised
    embed_calls,          \* calls of the embedding service made by the run
    store_calls,          \* calls of the vector store made by the run
    failed_docs,          \* << document, error >> of each failure main caught and logged
    all_paragraphs,       \* the list export_paragraphs_to_json collects
    json_file,            \* the lists written to the output file: none, or one
    \* perform_search and BahaiSemanticSearch (src/app.py)
    app_pc,               \* position in perform_search and search
    caller,               \* who called search(): "perform_search" or "search"
    query,                \* the query argument
    search_mode,          \* the search_mode argument
    search_text,          \* the text passed to search()
    html,                 \* kind of HTML perform_search returned last
    results,              \* source_file of each result search() returned last
    shown,                \* results rendered last, each with its library URL
    rewrite_calls,        \* calls of the chat completion service
    embedding_calls,      \* calls of the embedding service
    query_calls,          \* calls of index.query
    searches,             \* calls of perform_search and of search made
    errors                \* error messages perform_search returned

extractVars == << file_name, doc_paragraphs, min_words, pc, k, raw_paragraphs, i,
                  combined_paragraphs, consumed >>

mainVars == << export_json, input_dir, have_keys, mpc, confirmation, corpus_dir, indexed_dir,
               docx_files, file_index, store, paragraphs, para_index, vectors, batch_start, embed_failed,
               embed_calls, store_calls, failed_docs, all_paragraphs, json_file >>

appVars == << app_pc, caller, query, search_mode, search_text, html, results, shown,
              rewrite_calls, embedding_calls, query_calls, searches, errors >>

vars == << extractVars, mainVars, appVars >>

\* extract_paragraphs_from_docx is not running
ExtractIdle ==
    /\ file_name = << >>
    /\ doc_paragraphs = << >>
    /\ min_words = 100
    /\ pc = "idle"
    /\ k = 0
    /\ raw_paragraphs = << >>
    /\ i = 0
    /\ combined_paragraphs = << >>
    /\ consumed = << >>

\* the script is not running
MainIdle ==
    /\ export_json = FALSE
    /\ input_dir = "corpus_indexed"
    /\ have_keys = TRUE
    /\ mpc = "idle"
    /\ confirmation = {}
    /\ corpus_dir = {}
    /\ indexed_dir = {}
    /\ docx_files = << >>
    /\ file_index = 0
    /\ store = {}
    /\ paragraphs = 0
    /\ para_index = 0
    /\ vectors = << >>
    /\ batch_start = 0
    /\ embed_failed = {}
    /\ embed_calls = 0
    /\ store_calls = 0
    /\ failed_docs = {}
    /\ all_paragraphs = << >>
    /\ json_file = {}

\* the front-end is not running
AppIdle ==
    /\ app_pc = "idle"
    /\ caller = "perform_search"
    /\ query = << >>
    /\ search_mode = "Find a Quote"
    /\ search_text = << >>
    /\ html = "none"
    /\ results = << >>
    /\ shown = << >>
    /\ rewrite_calls = 0
    /\ embedding_calls = 0
    /\ query_calls = 0
    /\ searches = 0
    /\ errors = 0

-----------------------------------------------------------------------------
(* Python string primitives                                                *)

\* the whitespace str.strip() and str.split() remove, among the characters
\* the texts of the model are made of
IsSpace(c) == c \in {" ", "\t"}

\* str.strip(): the text between its first and its last non-whitespace
\* character, empty when it has none
Strip(s) ==
    LET kept == { n \in 1..Len(s) : ~ IsSpace(s[n]) } IN
    IF kept = {} THEN << >>
    ELSE SubSeq(s, CHOOSE n \in kept : \A m \in kept : n <= m,
                   CHOOSE n \in kept : \A m \in kept : m <= n)

\* the positions at which a word of str.split() starts: a non-whitespace
\* character that is the first character or follows a whitespace character
WordStarts(s) ==
    { n \in 1..Len(s) : ~ IsSpace(s[n]) /\ (n = 1 \/ IsSpace(s[n - 1])) }

\* len(text.split()): str.split() with no separator yields the maximal runs
\* of non-whitespace characters, one for each word start
WordCount(s) == Cardinality(WordStarts(s))

\* str.lower() of one character (ASCII letters; others are unchanged)
LowerChar(c) ==
    CASE c = "A" -> "a" [] c = "B" -> "b" [] c = "C" -> "c" [] c = "D" -> "d"
      [] c = "E" -> "e" [] c = "F" -> "f" [] c = "G" -> "g" [] c = "H" -> "h"
      [] c = "I" -> "i" [] c = "J" -> "j" [] c = "K" -> "k" [] c = "L" -> "l"
      [] c = "M" -> "m" [] c = "N" -> "n" [] c = "O" -> "o" [] c = "P" -> "p"
      [] c = "Q" -> "q" [] c = "R" -> "r" [] c = "S" -> "s" [] c = "T" -> "t"
      [] c = "U" -> "u" [] c = "V" -> "v" [] c = "W" -> "w" [] c = "X" -> "x"
      [] c = "Y" -> "y" [] c = "Z" -> "z" [] OTHER -> c

\* str.lower()
Lower(s) == [n \in 1..Len(s) |-> LowerChar(s[n])]

\* str.startswith(p)
StartsWith(s, p) == Len(s) >= Len(p) /\ SubSeq(s, 1, Len(p)) = p

\* c in s
Contains(s, c) == \E n \in 1..Len(s) : s[n] = c

RECURSIVE RemoveAll(_, _)
\* str.replace(p, ''): one left-to-right scan that drops every
\* non-overlapping occurrence of p; the result is not scanned again
RemoveAll(s, p) ==
    IF s = << >> THEN << >>
    ELSE IF StartsWith(s, p) THEN RemoveAll(SubSeq(s, Len(p) + 1, Len(s)), p)
    ELSE << Head(s) >> \o RemoveAll(Tail(s), p)

\* one decimal digit as a character
Digit(d) ==
    CASE d = 0 -> "0" [] d = 1 -> "1" [] d = 2 -> "2" [] d = 3 -> "3"
      [] d = 4 -> "4" [] d = 5 -> "5" [] d = 6 -> "6" [] d = 7 -> "7"
      [] d = 8 -> "8" [] d = 9 -> "9"

RECURSIVE Str(_)
\* str(n) of a non-negative integer, as an f-string formats it
Str(n) == IF n < 10 THEN << Digit(n) >> ELSE Str(n \div 10) \o << Digit(n % 10) >>

\* the index of the last "." of a name, 0 when it has none (str.rfind + 1)
LastDot(s) ==
    IF \E n \in 1..Len(s) : s[n] = "."
    THEN CHOOSE n \in 1..Len(s) : s[n] = "." /\ \A m \in (n + 1)..Len(s) : s[m] # "."
    ELSE 0

\* pathlib's PurePath.stem: the name without its last suffix; a name whose
\* only dot is its first or its last character has no suffix
Stem(name) ==
    IF LastDot(name) > 1 /\ LastDot(name) < Len(name)
    THEN SubSeq(name, 1, LastDot(name) - 1)
    ELSE name

DOCX == << ".", "d", "o", "c", "x" >>

-----------------------------------------------------------------------------
(* get_author_from_filename                                                *)

bahaullah_works ==
    { <<"k","i","t","a","b","-","i","-","i","q","a","n">>,
      <<"h","i","d","d","e","n","-","w","o","r","d","s">>,
      <<"g","l","e","a","n","i","n","g","s","-","w","r","i","t","i","n","g","s","-","b","a","h","a","u","l","l","a","h">>,
      <<"k","i","t","a","b","-","i","-","a","q","d","a","s","-","2">>,
      <<"e","p","i","s","t","l","e","-","s","o","n","-","w","o","l","f">>,
      <<"g","e","m","s","-","d","i","v","i","n","e","-","m","y","s","t","e","r","i","e","s">>,
      <<"s","u","m","m","o","n","s","-","l","o","r","d","-","h","o","s","t","s">>,
      <<"t","a","b","l","e","t","s","-","b","a","h","a","u","l","l","a","h">>,
      <<"t","a","b","e","r","n","a","c","l","e","-","u","n","i","t","y">>,
      <<"p","r","a","y","e","r","s","-","m","e","d","i","t","a","t","i","o","n","s">> }

abdul_baha_works ==
    { <<"s","o","m","e","-","a","n","s","w","e","r","e","d","-","q","u","e","s","t","i","o","n","s">>,
      <<"p","a","r","i","s","-","t","a","l","k","s">>,
      <<"p","r","o","m","u","l","g","a","t","i","o","n","-","u","n","i","v","e","r","s","a","l","-","p","e","a","c","e">>,
      <<"m","e","m","o","r","i","a","l","s","-","f","a","i","t","h","f","u","l">>,
      <<"s","e","l","e","c","t","i","o","n","s","-","w","r","i","t","i","n","g","s","-","a","b","d","u","l","-","b","a","h","a">>,
      <<"s","e","c","r","e","t","-","d","i","v","i","n","e","-","c","i","v","i","l","i","z","a","t","i","o","n">>,
      <<"t","r","a","v","e","l","e","r","s","-","n","a","r","r","a","t","i","v","e">>,
      <<"w","i","l","l","-","t","e","s","t","a","m","e","n","t","-","a","b","d","u","l","-","b","a","h","a">>,
      <<"t","a","b","l","e","t","s","-","d","i","v","i","n","e","-","p","l","a","n">>,
      <<"t","a","b","l","e","t","-","a","u","g","u","s","t","e","-","f","o","r","e","l">> }

bab_works ==
    { <<"s","e","l","e","c","t","i","o","n","s","-","w","r","i","t","i","n","g","s","-","b","a","b">> }

shoghi_works ==
    { <<"a","d","v","e","n","t","-","d","i","v","i","n","e","-","j","u","s","t","i","c","e">>,
      <<"g","o","d","-","p","a","s","s","e","s","-","b","y">>,
      <<"p","r","o","m","i","s","e","d","-","d","a","y","-","c","o","m","e">>,
      <<"w","o","r","l","d","-","o","r","d","e","r","-","b","a","h","a","u","l","l","a","h">> }

uhj_works ==
    { <<"t","h","e","-","i","n","s","t","i","t","u","t","i","o","n","-","o","f","-","t","h","e","-","c","o","u","n","s","e","l","l","o","r","s">>,
      <<"t","u","r","n","i","n","g","-","p","o","i","n","t">>,
      <<"m","u","h","j","-","1","9","6","3","-","1","9","8","6">> }

compilation_works ==
    { <<"d","a","y","s","-","r","e","m","e","m","b","r","a","n","c","e">>,
      <<"l","i","g","h","t","-","o","f","-","t","h","e","-","w","o","r","l","d">> }

\* filename.lower().replace('.docx', '')
filename_lower(filename) == RemoveAll(Lower(filename), DOCX)

\* filename_lower.startswith(('19', '20')) and '_' in filename_lower
IsDated(s) ==
    /\ StartsWith(s, << "1", "9" >>) \/ StartsWith(s, << "2", "0" >>)
    /\ Contains(s, "_")

\* the returned labels are written here without the accents of the source's
\* string literals
get_author_from_filename(filename) ==
    LET f == filename_lower(filename) IN
    IF f \in bahaullah_works THEN "Baha'u'llah"
    ELSE IF f \in abdul_baha_works THEN "'Abdu'l-Baha"
    ELSE IF f \in bab_works THEN "The Bab"
    ELSE IF f \in shoghi_works THEN "Shoghi Effendi"
    ELSE IF f \in uhj_works THEN "Universal House of Justice"
    ELSE IF f \in compilation_works THEN "Compilations"
    ELSE IF IsDated(f) THEN "Universal House of Justice"
    ELSE "Other"

-----------------------------------------------------------------------------
(* extract_paragraphs_from_docx                                            *)

\* min_words = 100
min_words_default == 100

\* the identifier built from the start index alone, whatever the chunk consumed
document_idStartOnly(name, combined_ids) ==
    Stem(name) \o << "_", "p", "a", "r", "a", "_" >> \o Str(combined_ids[1])

\* f"{Path(file_path).stem}_para_{start_id}" for a chunk of one paragraph,
\* f"{Path(file_path).stem}_para_{combined_ids[0]}-{combined_ids[-1]}" otherwise
document_id(name, combined_ids) ==
    LET prefix == Stem(name) \o << "_", "p", "a", "r", "a", "_" >> IN
    IF Len(combined_ids) = 1
    THEN prefix \o Str(combined_ids[1])
    ELSE prefix \o Str(combined_ids[1]) \o << "-" >> \o Str(combined_ids[Len(combined_ids)])

\* the inner loop as an if: one paragraph is appended and the text is not
\* tested again
InnerLoopOnce(raw, current_text, combined_ids, j, mw) ==
    IF j < Len(raw) /\ WordCount(current_text) < mw
    THEN [current_text |-> current_text \o << " " >> \o raw[j + 1].text,
          combined_ids |-> Append(combined_ids, raw[j + 1].original_id),
          j |-> j + 1]
    ELSE [current_text |-> current_text, combined_ids |-> combined_ids, j |-> j]

RECURSIVE InnerLoopNoSpace(_, _, _, _, _)
\* the inner loop with current_text += next_text, the separator forgotten
InnerLoopNoSpace(raw, current_text, combined_ids, j, mw) ==
    IF j < Len(raw) /\ WordCount(current_text) < mw
    THEN InnerLoopNoSpace(raw,
                          current_text \o raw[j + 1].text,
                          Append(combined_ids, raw[j + 1].original_id),
                          j + 1, mw)
    ELSE [current_text |-> current_text, combined_ids |-> combined_ids, j |-> j]

RECURSIVE StaleFrom(_, _, _, _, _, _)
\* the inner loop testing count0, a word count taken once, on every pass
StaleFrom(raw, current_text, combined_ids, j, mw, count0) ==
    IF j < Len(raw) /\ count0 < mw
    THEN StaleFrom(raw,
                   current_text \o << " " >> \o raw[j + 1].text,
                   Append(combined_ids, raw[j + 1].original_id),
                   j + 1, mw, count0)
    ELSE [current_text |-> current_text, combined_ids |-> combined_ids, j |-> j]

\* the inner loop with the guard current_word_count < min_words: the word
\* count of the text as it stood before the loop, never taken again
InnerLoopStale(raw, current_text, combined_ids, j, mw) ==
    StaleFrom(raw, current_text, combined_ids, j, mw, WordCount(current_text))

RECURSIVE InnerLoopLe(_, _, _, _, _)
\* the inner loop with the guard len(current_text.split()) <= min_words
InnerLoopLe(raw, current_text, combined_ids, j, mw) ==
    IF j < Len(raw) /\ WordCount(current_text) <= mw
    THEN InnerLoopLe(raw,
                     current_text \o << " " >> \o raw[j + 1].text,
                     Append(combined_ids, raw[j + 1].original_id),
                     j + 1, mw)
    ELSE [current_text |-> current_text, combined_ids |-> combined_ids, j |-> j]

\* the inner while loop: j is the 0-based index of the next paragraph; the
\* guard recomputes len(current_text.split()) on the text as it stands
RECURSIVE InnerLoop(_, _, _, _, _)
InnerLoop(raw, current_text, combined_ids, j, mw) ==
    IF j < Len(raw) /\ WordCount(current_text) < mw
    THEN InnerLoop(raw,
                   current_text \o << " " >> \o raw[j + 1].text,
                   Append(combined_ids, raw[j + 1].original_id),
                   j + 1, mw)
    ELSE [current_text |-> current_text, combined_ids |-> combined_ids, j |-> j]

\* the outer iteration with i = j - 1: the cursor is left on the last
\* paragraph the inner loop consumed
MergeIterationRevisit(raw, c, mw) ==
    LET current_text == raw[c + 1].text
        current_word_count == WordCount(current_text)
        start_id == raw[c + 1].original_id
    IN  IF current_word_count < mw /\ c < Len(raw) - 1
        THEN LET r == InnerLoop(raw, current_text, << start_id >>, c + 1, mw)
             IN  [current_text |-> r.current_text, combined_ids |-> r.combined_ids, i |-> r.j - 1]
        ELSE [current_text |-> current_text, combined_ids |-> << start_id >>, i |-> c + 1]

\* the outer iteration that appends the next paragraph whenever there is one,
\* before any word count is tested
MergeIterationAlwaysAbsorb(raw, c, mw) ==
    LET current_text == raw[c + 1].text
        start_id == raw[c + 1].original_id
    IN  IF c < Len(raw) - 1
        THEN LET r == InnerLoop(raw,
                                current_text \o << " " >> \o raw[c + 2].text,
                                << start_id, raw[c + 2].original_id >>,
                                c + 2, mw)
             IN  [current_text |-> r.current_text, combined_ids |-> r.combined_ids, i |-> r.j]
        ELSE [current_text |-> current_text, combined_ids |-> << start_id >>, i |-> c + 1]

\* the outer iteration with i = j + 1: the paragraph after the consumed ones
\* is skipped
MergeIterationSkip(raw, c, mw) ==
    LET current_text == raw[c + 1].text
        current_word_count == WordCount(current_text)
        start_id == raw[c + 1].original_id
    IN  IF current_word_count < mw /\ c < Len(raw) - 1
        THEN LET r == InnerLoop(raw, current_text, << start_id >>, c + 1, mw)
             IN  [current_text |-> r.current_text, combined_ids |-> r.combined_ids, i |-> r.j + 1]
        ELSE [current_text |-> current_text, combined_ids |-> << start_id >>, i |-> c + 1]

\* the outer iteration without its else branch i += 1: a paragraph emitted
\* alone leaves the cursor where it was
MergeIterationStay(raw, c, mw) ==
    LET current_text == raw[c + 1].text
        current_word_count == WordCount(current_text)
        start_id == raw[c + 1].original_id
    IN  IF current_word_count < mw /\ c < Len(raw) - 1
        THEN LET r == InnerLoop(raw, current_text, << start_id >>, c + 1, mw)
             IN  [current_text |-> r.current_text, combined_ids |-> r.combined_ids, i |-> r.j]
        ELSE [current_text |-> current_text, combined_ids |-> << start_id >>, i |-> c]

\* one iteration of the outer while loop, started with cursor c (0-based):
\* the text and ids of the chunk it builds and the cursor it leaves
MergeIteration(raw, c, mw) ==
    LET current_text == raw[c + 1].text
        current_word_count == WordCount(current_text)
        start_id == raw[c + 1].original_id
    IN  IF current_word_count < mw /\ c < Len(raw) - 1
        THEN LET r == InnerLoop(raw, current_text, << start_id >>, c + 1, mw)
             IN  [current_text |-> r.current_text, combined_ids |-> r.combined_ids, i |-> r.j]
        ELSE [current_text |-> current_text, combined_ids |-> << start_id >>, i |-> c + 1]

RECURSIVE MergeFrom(_, _, _)
\* the outer while loop run from cursor c to its end: the text and ids of
\* every chunk it builds, in order
MergeFrom(raw, c, mw) ==
    IF c < Len(raw)
    THEN LET r == MergeIteration(raw, c, mw)
         IN  << [current_text |-> r.current_text, combined_ids |-> r.combined_ids] >>
             \o MergeFrom(raw, r.i, mw)
    ELSE << >>

\* the dictionary appended to combined_paragraphs
Chunk(name, current_text, combined_ids) ==
    [ text         |-> current_text,
      paragraph_id |-> combined_ids[1],
      source_file  |-> name,
      document_id  |-> document_id(name, combined_ids),
      author       |-> get_author_from_filename(name) ]

\* the loop body with original_id taken from the filtered list's length
ExtractStepFilteredIndex ==
    /\ pc = "extract"
    /\ k < Len(doc_paragraphs)
    /\ LET text == Strip(doc_paragraphs[k + 1]) IN
       raw_paragraphs' =
           IF text # << >>
           THEN Append(raw_paragraphs, [text |-> text, original_id |-> Len(raw_paragraphs)])
           ELSE raw_paragraphs
    /\ k' = k + 1
    /\ UNCHANGED << file_name, doc_paragraphs, min_words, pc, i, combined_paragraphs, consumed >>
    /\ UNCHANGED << mainVars, appVars >>

\* one pass of the enumerate() loop over doc.paragraphs
ExtractStep ==
    /\ pc = "extract"
    /\ k < Len(doc_paragraphs)
    /\ LET text == Strip(doc_paragraphs[k + 1]) IN
       raw_paragraphs' =
           IF text # << >>
           THEN Append(raw_paragraphs, [text |-> text, original_id |-> k])
           ELSE raw_paragraphs
    /\ k' = k + 1
    /\ UNCHANGED << file_name, doc_paragraphs, min_words, pc, i, combined_paragraphs, consumed >>
    /\ UNCHANGED << mainVars, appVars >>

\* the enumerate() loop is exhausted: combined_paragraphs = [], i = 0
ExtractEnd ==
    /\ pc = "extract"
    /\ k = Len(doc_paragraphs)
    /\ pc' = "merge"
    /\ i' = 0
    /\ combined_paragraphs' = << >>
    /\ consumed' = << >>
    /\ UNCHANGED << file_name, doc_paragraphs, min_words, k, raw_paragraphs >>
    /\ UNCHANGED << mainVars, appVars >>

\* the outer iteration behind a validation of min_words: with min_words <= 0 it
\* raises instead of building a chunk
MergeStepChecked ==
    /\ pc = "merge"
    /\ i < Len(raw_paragraphs)
    /\ min_words > 0
    /\ LET r == MergeIteration(raw_paragraphs, i, min_words) IN
       /\ i' = r.i
       /\ combined_paragraphs' =
              Append(combined_paragraphs, Chunk(file_name, r.current_text, r.combined_ids))
       /\ consumed' = Append(consumed, r.combined_ids)
    /\ UNCHANGED << file_name, doc_paragraphs, min_words, pc, k, raw_paragraphs >>
    /\ UNCHANGED << mainVars, appVars >>

\* the outer iteration that folds a short last paragraph back into the chunk
\* appended before it
MergeStepBackward ==
    /\ pc = "merge"
    /\ i < Len(raw_paragraphs)
    /\ LET r == MergeIteration(raw_paragraphs, i, min_words)
           short_tail == /\ i = Len(raw_paragraphs) - 1
                         /\ WordCount(r.current_text) < min_words
                         /\ combined_paragraphs # << >>
           n == Len(combined_paragraphs)
       IN
       /\ i' = r.i
       /\ combined_paragraphs' =
              IF short_tail
              THEN [combined_paragraphs EXCEPT ![n].text = @ \o << " " >> \o r.current_text]
              ELSE Append(combined_paragraphs, Chunk(file_name, r.current_text, r.combined_ids))
       /\ consumed' =
              IF short_tail
              THEN [consumed EXCEPT ![n] = @ \o r.combined_ids]
              ELSE Append(consumed, r.combined_ids)
    /\ UNCHANGED << file_name, doc_paragraphs, min_words, pc, k, raw_paragraphs >>
    /\ UNCHANGED << mainVars, appVars >>

\* one iteration of the outer while loop, through combined_paragraphs.append
MergeStep ==
    /\ pc = "merge"
    /\ i < Len(raw_paragraphs)
    /\ LET r == MergeIteration(raw_paragraphs, i, min_words) IN
       /\ i' = r.i
       /\ combined_paragraphs' =
              Append(combined_paragraphs, Chunk(file_name, r.current_text, r.combined_ids))
       /\ consumed' = Append(consumed, r.combined_ids)
    /\ UNCHANGED << file_name, doc_paragraphs, min_words, pc, k, raw_paragraphs >>
    /\ UNCHANGED << mainVars, appVars >>

\* the outer loop's guard fails: return combined_paragraphs
MergeEnd ==
    /\ pc = "merge"
    /\ ~ (i < Len(raw_paragraphs))
    /\ pc' = "done"
    /\ UNCHANGED << file_name, doc_paragraphs, min_words, k, raw_paragraphs, i,
                    combined_paragraphs, consumed >>
    /\ UNCHANGED << mainVars, appVars >>

Next == ExtractStep \/ ExtractEnd \/ MergeStep \/ MergeEnd

-----------------------------------------------------------------------------
(* Inputs                                                                  *)

\* most paragraphs of a document
MaxParas == 4

\* most paragraphs of a document whose paragraphs are around min_words long,
\* and of a document that follows leading empty paragraphs
MaxLongParas == 3

\* largest min_words tried besides the program's own
MaxMinWords == 3

\* empty paragraphs put before a document so that original ids reach two digits
LeadingBlanks == 9

\* a text of n one-letter words separated by single spaces (n >= 1)
Words(n) == [m \in 1..(2 * n - 1) |-> IF m % 2 = 1 THEN "a" ELSE " "]

\* all sequences over S of length at most n
SeqsUpTo(S, n) == UNION { [1..m -> S] : m \in 0..n }

\* paragraph texts of a few words: an empty one, and texts of one, two and
\* three words with leading, trailing and repeated whitespace
ShortTexts ==
    { << >>,
      << "\t", "a", " " >>,
      << "b", " ", "c" >>,
      << "a", " ", " ", "b", "\t", "c" >> }

\* paragraph texts around the program's min_words
LongTexts ==
    { << >>,
      << " " >>,
      << " ", "a", " " >>,
      Words(min_words_default \div 2),
      Words(min_words_default - 1),
      Words(min_words_default) }

DefaultFile == << "h","i","d","d","e","n","-","w","o","r","d","s",".","d","o","c","x" >>

FileNames ==
    { <<"K","i","t","a","b","-","i","-","I","q","a","n",".","d","o","c","x">>,
      <<"h","i","d","d","e","n","-","w","o","r","d","s",".","d","o","c","x">>,
      <<"h","i","d","d","e","n","-","w","o","r","d","s",".","d","o","c","x",".","d","o","c","x">>,
      <<"P","a","r","i","s","-","T","a","l","k","s",".","d","o","c","x">>,
      <<"s","e","l","e","c","t","i","o","n","s","-","w","r","i","t","i","n","g","s","-","b","a","b",".","d","o","c","x">>,
      <<"g","o","d","-","p","a","s","s","e","s","-","b","y",".","d","o","c","x">>,
      <<"t","u","r","n","i","n","g","-","p","o","i","n","t",".","d","o","c","x">>,
      <<"m","u","h","j","-","1","9","6","3","-","1","9","8","6",".","d","o","c","x">>,
      <<"d","a","y","s","-","r","e","m","e","m","b","r","a","n","c","e",".","d","o","c","x">>,
      <<"1","9","9","9","_","0","1","_","0","1","_","m","e","s","s","a","g","e",".","d","o","c","x">>,
      <<"2","0","0","1","_","x",".","d","o","c","x">>,
      <<"2","0","0","1","-","x",".","d","o","c","x">>,
      <<"x","_","1","9","9","9",".","d","o","c","x">>,
      <<"1","9",".","d","o","c","x","_",".","d","o","c","x">>,
      <<"r","a","n","d","o","m","-","f","i","l","e",".","d","o","c","x">> }

\* a document preceded by n empty paragraphs
Padded(n, doc) == [m \in 1..n |-> << >>] \o doc

\* documents whose paragraphs are around min_words long, under the default file
\* name; every file name with a few short documents; and documents that follow
\* LeadingBlanks empty paragraphs, so that original ids reach two digits
LongInputs ==
    LET docs == SeqsUpTo(LongTexts, MaxLongParas)
        few_texts == { << " " >>, << " ", "a", " " >>, Words(min_words_default) }
        few == SeqsUpTo(few_texts, 2)
    IN  ({DefaultFile} \X docs)
        \cup (FileNames \X few)
        \cup ({DefaultFile} \X { Padded(LeadingBlanks, d) : d \in SeqsUpTo(few_texts, MaxLongParas) })

\* documents of short paragraphs, and some that follow LeadingBlanks empty
\* paragraphs
ShortInputs ==
    ({DefaultFile} \X SeqsUpTo(ShortTexts, MaxParas))
    \cup ({DefaultFile} \X { Padded(LeadingBlanks, d) :
                                d \in SeqsUpTo({ << >>, << "a" >>, << "b", " ", "c" >> }, MaxLongParas) })

\* paragraphs of 5, 5 and 200 words, to be merged with min_words = 50
FixtureInputs == { << DefaultFile, << Words(5), Words(5), Words(200) >> >> }

InitWith(inputs, mws) ==
    /\ \E inp \in inputs : file_name = inp[1] /\ doc_paragraphs = inp[2]
    /\ min_words \in mws
    /\ pc = "extract"
    /\ k = 0
    /\ raw_paragraphs = << >>
    /\ i = 0
    /\ combined_paragraphs = << >>
    /\ consumed = << >>
    /\ MainIdle
    /\ AppIdle

\* the program: min_words is the literal 100
Init == InitWith(LongInputs, {min_words_default})

Spec == Init /\ [][Next]_vars

\* the merge as a function of the paragraphs and of min_words: the program's
\* runs, runs of short paragraphs under small values of min_words, and the
\* run of the 5, 5, 200 words fixture under min_words = 50
InitMerge ==
    \/ InitWith(LongInputs, {min_words_default})
    \/ InitWith(ShortInputs, (0 - 1)..MaxMinWords)
    \/ InitWith(FixtureInputs, {50})

SpecMerge == InitMerge /\ [][Next]_vars

\* the runs of short paragraphs and of the fixture, where the function goes
\* on to its next statement as long as it has one
InitMergeFair ==
    \/ InitWith({DefaultFile} \X SeqsUpTo(ShortTexts, MaxLongParas), (0 - 1)..MaxMinWords)
    \/ InitWith(FixtureInputs, {50})

SpecMergeFair == InitMergeFair /\ [][Next]_vars /\ WF_vars(Next)

-----------------------------------------------------------------------------
(* Vocabulary of the properties                                            *)

Last(s) == s[Len(s)]

NChunks == Len(combined_paragraphs)

\* the original ids of the extracted paragraphs
OriginalIds == { raw_paragraphs[n].original_id : n \in 1..Len(raw_paragraphs) }

\* start and end index of chunk c and the index range between them
StartIndex(c) == combined_paragraphs[c].paragraph_id
EndIndex(c) == Last(consumed[c])
IndexRange(c) == StartIndex(c)..EndIndex(c)

\* the ids of the paragraphs chunk c consumed
ConsumedIds(c) == { consumed[c][n] : n \in 1..Len(consumed[c]) }

\* the extraction and the merge have both run to their end
Returned == pc = "done"

-----------------------------------------------------------------------------
(* C1: when the merge has returned, every original index of an extracted   *)
(* paragraph lies in the index range of exactly one chunk and was consumed *)
(* by exactly one chunk, and the chunks consumed nothing else.             *)
C1_Partition ==
    Returned =>
        /\ \A id \in OriginalIds :
              /\ Cardinality({ c \in 1..NChunks : id \in IndexRange(c) }) = 1
              /\ Cardinality({ c \in 1..NChunks : id \in ConsumedIds(c) }) = 1
        /\ \A c \in 1..NChunks :
              /\ ConsumedIds(c) \subseteq OriginalIds
              /\ Cardinality(ConsumedIds(c)) = Len(consumed[c])

\* a returned merge of several chunks, one of several paragraphs, over a
\* document from which empty paragraphs were dropped
C1_Witness ==
    /\ Returned
    /\ NChunks >= 2
    /\ \E c \in 1..NChunks : Len(consumed[c]) >= 2
    /\ Len(raw_paragraphs) < Len(doc_paragraphs)

(* C2: every chunk appended so far has at least min_words words, or it is  *)
(* the last chunk and no paragraph is left after it.                       *)
C2_MinWordsOrLast ==
    \A c \in 1..NChunks :
        \/ WordCount(combined_paragraphs[c].text) >= min_words
        \/ c = NChunks /\ i = Len(raw_paragraphs)

\* a returned merge whose last chunk is under min_words, after a chunk that
\* reached min_words by merging
C2_Witness ==
    /\ Returned
    /\ NChunks >= 2
    /\ WordCount(Last(combined_paragraphs).text) < min_words
    /\ \E c \in 1..(NChunks - 1) :
          /\ Len(consumed[c]) >= 2
          /\ WordCount(combined_paragraphs[c].text) >= min_words

RECURSIVE JoinTexts(_, _, _)
\* the texts of paragraphs a..b of raw, in order, with one space between
\* neighbours
JoinTexts(raw, a, b) ==
    IF a = b THEN raw[a].text
    ELSE raw[a].text \o << " " >> \o JoinTexts(raw, a + 1, b)

(* C3: every chunk is a run a..b of consecutive extracted paragraphs: its  *)
(* text is their texts in order joined by single spaces, its start index   *)
(* is the original index of paragraph a, its end index that of paragraph   *)
(* b, and start index <= end index.                                        *)
C3_ConsecutiveRun ==
    \A c \in 1..NChunks :
        \E a \in 1..Len(raw_paragraphs) : \E b \in a..Len(raw_paragraphs) :
            /\ consumed[c] = [n \in 1..(b - a + 1) |-> raw_paragraphs[a + n - 1].original_id]
            /\ combined_paragraphs[c].text = JoinTexts(raw_paragraphs, a, b)
            /\ StartIndex(c) = raw_paragraphs[a].original_id
            /\ EndIndex(c) = raw_paragraphs[b].original_id
            /\ StartIndex(c) <= EndIndex(c)

\* a chunk of at least three paragraphs
C3_Witness ==
    /\ Returned
    /\ \E c \in 1..NChunks :
          /\ Len(consumed[c]) >= 3
          /\ StartIndex(c) < EndIndex(c)

(* C4: the start indices of successive chunks strictly increase and each   *)
(* chunk ends before the next one starts.                                  *)
C4_DocumentOrder ==
    \A c \in 1..(NChunks - 1) :
        /\ StartIndex(c) < StartIndex(c + 1)
        /\ EndIndex(c) < StartIndex(c + 1)

\* three chunks, the middle one of several paragraphs
C4_Witness ==
    /\ Returned
    /\ NChunks >= 3
    /\ Len(consumed[2]) >= 2

\* the file name without its trailing ".docx"
DocStem(name) == SubSeq(name, 1, Len(name) - Len(DOCX))

RECURSIVE DecimalValue(_)
\* the number a string of decimal digits denotes
DecimalValue(ds) ==
    IF ds = << >> THEN 0
    ELSE LET digits == << "0", "1", "2", "3", "4", "5", "6", "7", "8", "9" >>
             d == CHOOSE n \in 1..10 : digits[n] = Last(ds)
         IN  10 * DecimalValue(SubSeq(ds, 1, Len(ds) - 1)) + (d - 1)

\* ds is the decimal numeral of n: digits only, no leading zero, value n
IsDecimalOf(ds, n) ==
    /\ ds # << >>
    /\ \A m \in 1..Len(ds) : ds[m] \in { "0", "1", "2", "3", "4", "5", "6", "7", "8", "9" }
    /\ Len(ds) > 1 => ds[1] # "0"
    /\ DecimalValue(ds) = n

(* C5: the identifier of a chunk of one paragraph is the document stem,    *)
(* "_para_" and the decimal start index; that of a chunk of several        *)
(* paragraphs is the stem, "_para_", the start index, "-" and the end      *)
(* index; no two chunks of the document have the same identifier.          *)
C5_DocumentId ==
    /\ \A c \in 1..NChunks :
          LET id == combined_paragraphs[c].document_id
              prefix == DocStem(file_name) \o << "_", "p", "a", "r", "a", "_" >>
              rest == SubSeq(id, Len(prefix) + 1, Len(id))
          IN  /\ StartsWith(id, prefix)
              /\ IF Len(consumed[c]) = 1
                 THEN IsDecimalOf(rest, StartIndex(c))
                 ELSE \E p \in 1..Len(rest) :
                         /\ rest[p] = "-"
                         /\ IsDecimalOf(SubSeq(rest, 1, p - 1), StartIndex(c))
                         /\ IsDecimalOf(SubSeq(rest, p + 1, Len(rest)), EndIndex(c))
    /\ \A c, d \in 1..NChunks :
          c # d => combined_paragraphs[c].document_id # combined_paragraphs[d].document_id

\* a chunk of one paragraph and a chunk of several, with a two-digit index
C5_Witness ==
    /\ Returned
    /\ \E c \in 1..NChunks : Len(consumed[c]) = 1
    /\ \E c \in 1..NChunks : Len(consumed[c]) >= 2 /\ EndIndex(c) >= 10

\* every character of s is whitespace
Blank(s) == \A m \in 1..Len(s) : IsSpace(s[m])

\* t is s without its leading and trailing whitespace, and is not empty
IsTrimmedFrom(t, s) ==
    /\ t # << >>
    /\ ~ IsSpace(t[1])
    /\ ~ IsSpace(Last(t))
    /\ \E a \in 0..(Len(s) - Len(t)) :
          /\ \A m \in 1..a : IsSpace(s[m])
          /\ SubSeq(s, a + 1, a + Len(t)) = t
          /\ \A m \in (a + Len(t) + 1)..Len(s) : IsSpace(s[m])

(* C6: of the k document paragraphs read so far, raw_paragraphs holds      *)
(* exactly those whose trimmed text is not empty, each with its trimmed    *)
(* text and its 0-based position in the document as original index; so it *)
(* is no longer than the document and its original indices strictly       *)
(* increase.                                                               *)
C6_Extraction ==
    /\ \A n \in 1..Len(raw_paragraphs) :
          /\ raw_paragraphs[n].original_id \in 0..(k - 1)
          /\ IsTrimmedFrom(raw_paragraphs[n].text,
                           doc_paragraphs[raw_paragraphs[n].original_id + 1])
    /\ \A p \in 0..(k - 1) :
          ~ Blank(doc_paragraphs[p + 1]) => p \in OriginalIds
    /\ \A n \in 1..(Len(raw_paragraphs) - 1) :
          raw_paragraphs[n].original_id < raw_paragraphs[n + 1].original_id
    /\ Len(raw_paragraphs) <= Len(doc_paragraphs)

\* an extraction that dropped a paragraph before one it kept, and trimmed one
C6_Witness ==
    /\ Returned
    /\ \E n \in 1..Len(raw_paragraphs) : raw_paragraphs[n].original_id > n - 1
    /\ \E n \in 1..Len(raw_paragraphs) :
          raw_paragraphs[n].text # doc_paragraphs[raw_paragraphs[n].original_id + 1]

(* C7: a step of the merge never changes a chunk already appended; and the *)
(* step taken with the cursor on the last paragraph, when that paragraph   *)
(* is under min_words, appends one chunk made of that paragraph alone.     *)
C7_ShortLastParagraph ==
    [][ /\ \A c \in 1..NChunks :
              /\ Len(combined_paragraphs') >= c
              /\ combined_paragraphs'[c] = combined_paragraphs[c]
              /\ consumed'[c] = consumed[c]
        /\ ( /\ pc = "merge"
             /\ i = Len(raw_paragraphs) - 1
             /\ WordCount(Last(raw_paragraphs).text) < min_words )
           => /\ Len(combined_paragraphs') = NChunks + 1
              /\ Last(combined_paragraphs').text = Last(raw_paragraphs).text
              /\ Last(combined_paragraphs').paragraph_id = Last(raw_paragraphs).original_id
              /\ Last(consumed') = << Last(raw_paragraphs).original_id >>
      ]_vars

\* a returned merge whose last chunk is the short last paragraph alone, after
\* an earlier chunk
C7_Witness ==
    /\ Returned
    /\ NChunks >= 2
    /\ Last(consumed) = << Last(raw_paragraphs).original_id >>
    /\ Last(combined_paragraphs).text = Last(raw_paragraphs).text
    /\ WordCount(Last(combined_paragraphs).text) < min_words

\* the chunks of a merge result taken as single paragraphs, in order
ChunksAsParagraphs ==
    [c \in 1..NChunks |-> [text |-> combined_paragraphs[c].text, original_id |-> c - 1]]

(* C8: when the merge has returned and each of its chunks has at least     *)
(* min_words words, merging those chunks again as single paragraphs gives  *)
(* one chunk for each of them, with the same text.                         *)
C8_Idempotent ==
    ( /\ Returned
      /\ \A c \in 1..NChunks : WordCount(combined_paragraphs[c].text) >= min_words )
    => LET again == MergeFrom(ChunksAsParagraphs, 0, min_words) IN
       /\ Len(again) = NChunks
       /\ \A c \in 1..NChunks :
             /\ again[c].current_text = combined_paragraphs[c].text
             /\ Len(again[c].combined_ids) = 1

\* a returned merge of several chunks that all reach a positive min_words,
\* one of them by merging
C8_Witness ==
    /\ Returned
    /\ min_words > 0
    /\ NChunks >= 2
    /\ \A c \in 1..NChunks : WordCount(combined_paragraphs[c].text) >= min_words
    /\ \E c \in 1..NChunks : Len(consumed[c]) >= 2

EndsWith(s, p) == Len(s) >= Len(p) /\ SubSeq(s, Len(s) - Len(p) + 1, Len(s)) = p

\* the name without a trailing ".docx" (in any letter case), lowercased
StrippedLower(name) ==
    Lower(IF EndsWith(Lower(name), DOCX) THEN SubSeq(name, 1, Len(name) - Len(DOCX)) ELSE name)

\* the hardcoded sets with their labels
LabelledWorks ==
    { << bahaullah_works, "Baha'u'llah" >>,
      << abdul_baha_works, "'Abdu'l-Baha" >>,
      << bab_works, "The Bab" >>,
      << shoghi_works, "Shoghi Effendi" >>,
      << uhj_works, "Universal House of Justice" >>,
      << compilation_works, "Compilations" >> }

\* the label C10 gives a normalised name
LabelOf(key) ==
    IF \E w \in LabelledWorks : key \in w[1]
    THEN (CHOOSE w \in LabelledWorks : key \in w[1])[2]
    ELSE IF /\ StartsWith(key, << "1", "9" >>) \/ StartsWith(key, << "2", "0" >>)
            /\ \E n \in 1..Len(key) : key[n] = "_"
         THEN "Universal House of Justice"
         ELSE "Other"

(* C10 as stated: the author of every chunk is the label of the file name  *)
(* with its trailing document extension stripped and lowercased: the label *)
(* of the set that holds it, else "Universal House of Justice" for a name  *)
(* that starts with "19" or "20" and has an underscore, else "Other".      *)
C10_Classifier ==
    \A c \in 1..NChunks :
        combined_paragraphs[c].author = LabelOf(StrippedLower(file_name))

\* the file name holds ".docx" once, at its end
SingleExtension(name) ==
    /\ EndsWith(Lower(name), DOCX)
    /\ \A n \in 1..(Len(name) - Len(DOCX)) :
          SubSeq(Lower(name), n, n + Len(DOCX) - 1) # DOCX

(* C10 on file names that hold ".docx" only as their extension: there the  *)
(* author is the label C10 states.                                         *)
C10_ClassifierSingleExtension ==
    SingleExtension(file_name) =>
        \A c \in 1..NChunks :
            combined_paragraphs[c].author = LabelOf(StrippedLower(file_name))

\* the position in raw_paragraphs of the first paragraph chunk c consumed
FirstPosition(c) ==
    CHOOSE a \in 1..Len(raw_paragraphs) : raw_paragraphs[a].original_id = consumed[c][1]

(* C19: a chunk of k > 1 paragraphs was closed as soon as the accumulated  *)
(* text reached min_words or no paragraph remained: its first k - 1        *)
(* paragraphs together have fewer than min_words words, and the whole has  *)
(* at least min_words words unless it ends the document. Paragraphs of 5,  *)
(* 5 and 200 words under min_words = 50 give a first chunk that holds the  *)
(* first two paragraphs together.                                          *)
C19_RecountAfterAppend ==
    /\ \A c \in 1..NChunks :
          Len(consumed[c]) > 1 =>
              LET a == FirstPosition(c)
                  z == a + Len(consumed[c]) - 1
              IN  /\ WordCount(JoinTexts(raw_paragraphs, a, z - 1)) < min_words
                  /\ \/ WordCount(combined_paragraphs[c].text) >= min_words
                     \/ z = Len(raw_paragraphs)
    /\ ( /\ Returned
         /\ min_words = 50
         /\ doc_paragraphs = << Words(5), Words(5), Words(200) >> )
       => /\ NChunks >= 1
          /\ Len(consumed[1]) >= 2
          /\ SubSeq(consumed[1], 1, 2) = << 0, 1 >>

\* the fixture merged: its three paragraphs make one chunk
C19_Witness ==
    /\ Returned
    /\ min_words = 50
    /\ doc_paragraphs = << Words(5), Words(5), Words(200) >>
    /\ NChunks = 1
    /\ consumed[1] = << 0, 1, 2 >>

(* C20 as stated: the inner loop tests the word count the buffer had       *)
(* before the merge step began, so every chunk is what that loop builds    *)
(* from the chunk's first paragraph.                                       *)
C20_PreLoopCount ==
    \A c \in 1..NChunks :
        Len(consumed[c]) > 1 =>
            LET a == FirstPosition(c)
                r == InnerLoopStale(raw_paragraphs, raw_paragraphs[a].text,
                                    << raw_paragraphs[a].original_id >>, a, min_words)
            IN  consumed[c] = r.combined_ids

(* C20 as amended: the inner loop's test is taken again on the accumulated *)
(* buffer after each append. A merge step that starts at cursor i consumes *)
(* n paragraphs, where every shorter run from i has fewer than min_words   *)
(* words, and the run of n has at least min_words words or ends the list.  *)
C20_CountTakenAgain ==
    [][ (pc = "merge" /\ i < Len(raw_paragraphs)) =>
            LET n == Len(Last(consumed')) IN
            /\ i' = i + n
            /\ \A m \in 1..(n - 1) :
                  WordCount(JoinTexts(raw_paragraphs, i + 1, i + m)) < min_words
            /\ \/ WordCount(JoinTexts(raw_paragraphs, i + 1, i + n)) >= min_words
               \/ i + n = Len(raw_paragraphs)
      ]_vars

\* a chunk of several paragraphs that the test closed before the last
\* paragraph: the stale test would have run on
C20_Witness ==
    /\ Returned
    /\ \E c \in 1..(NChunks - 1) :
          /\ Len(consumed[c]) >= 2
          /\ WordCount(combined_paragraphs[c].text) >= min_words

(* C21: the merge is one forward pass that ends. Every iteration of the    *)
(* outer loop appends exactly one chunk and moves the cursor forward by at *)
(* least one paragraph and never past the end, the cursor never moves      *)
(* backward, the function returns in the end, and it returns with the      *)
(* cursor equal to the number of extracted paragraphs; without any         *)
(* paragraph it returns the empty list.                                    *)
C21_ForwardPassEnds ==
    /\ [][
          (pc = "merge" /\ i < Len(raw_paragraphs)) =>
              /\ Len(combined_paragraphs') = Len(combined_paragraphs) + 1
              /\ i' >= i + 1
              /\ i' <= Len(raw_paragraphs)
        ]_vars
    /\ [][ i' >= i ]_vars
    /\ [] ( Returned =>
              /\ i = Len(raw_paragraphs)
              /\ raw_paragraphs = << >> => combined_paragraphs = << >> )
    /\ <> Returned

\* a merge that returned after several iterations, one of which moved the
\* cursor by more than one paragraph
C21_Witness ==
    /\ Returned
    /\ NChunks >= 2
    /\ i = Len(raw_paragraphs)
    /\ \E c \in 1..NChunks : Len(consumed[c]) >= 2

-----------------------------------------------------------------------------
(* ParagraphExtractor: the class that export_paragraphs_to_json defines    *)
(* for itself, with its own get_author_from_filename and its own           *)
(* extract_paragraphs_from_docx. Its definitions carry the prefix PE_.     *)

PE_bahaullah_works ==
    { <<"k","i","t","a","b","-","i","-","i","q","a","n">>,
      <<"h","i","d","d","e","n","-","w","o","r","d","s">>,
      <<"g","l","e","a","n","i","n","g","s","-","w","r","i","t","i","n","g","s","-","b","a","h","a","u","l","l","a","h">>,
      <<"k","i","t","a","b","-","i","-","a","q","d","a","s","-","2">>,
      <<"e","p","i","s","t","l","e","-","s","o","n","-","w","o","l","f">>,
      <<"g","e","m","s","-","d","i","v","i","n","e","-","m","y","s","t","e","r","i","e","s">>,
      <<"s","u","m","m","o","n","s","-","l","o","r","d","-","h","o","s","t","s">>,
      <<"t","a","b","l","e","t","s","-","b","a","h","a","u","l","l","a","h">>,
      <<"t","a","b","e","r","n","a","c","l","e","-","u","n","i","t","y">>,
      <<"p","r","a","y","e","r","s","-","m","e","d","i","t","a","t","i","o","n","s">> }

PE_abdul_baha_works ==
    { <<"s","o","m","e","-","a","n","s","w","e","r","e","d","-","q","u","e","s","t","i","o","n","s">>,
      <<"p","a","r","i","s","-","t","a","l","k","s">>,
      <<"p","r","o","m","u","l","g","a","t","i","o","n","-","u","n","i","v","e","r","s","a","l","-","p","e","a","c","e">>,
      <<"m","e","m","o","r","i","a","l","s","-","f","a","i","t","h","f","u","l">>,
      <<"s","e","l","e","c","t","i","o","n","s","-","w","r","i","t","i","n","g","s","-","a","b","d","u","l","-","b","a","h","a">>,
      <<"s","e","c","r","e","t","-","d","i","v","i","n","e","-","c","i","v","i","l","i","z","a","t","i","o","n">>,
      <<"t","r","a","v","e","l","e","r","s","-","n","a","r","r","a","t","i","v","e">>,
      <<"w","i","l","l","-","t","e","s","t","a","m","e","n","t","-","a","b","d","u","l","-","b","a","h","a">>,
      <<"t","a","b","l","e","t","s","-","d","i","v","i","n","e","-","p","l","a","n">>,
      <<"t","a","b","l","e","t","-","a","u","g","u","s","t","e","-","f","o","r","e","l">> }

PE_bab_works ==
    { <<"s","e","l","e","c","t","i","o","n","s","-","w","r","i","t","i","n","g","s","-","b","a","b">> }

PE_shoghi_works ==
    { <<"a","d","v","e","n","t","-","d","i","v","i","n","e","-","j","u","s","t","i","c","e">>,
      <<"g","o","d","-","p","a","s","s","e","s","-","b","y">>,
      <<"p","r","o","m","i","s","e","d","-","d","a","y","-","c","o","m","e">>,
      <<"w","o","r","l","d","-","o","r","d","e","r","-","b","a","h","a","u","l","l","a","h">> }

PE_uhj_works ==
    { <<"t","h","e","-","i","n","s","t","i","t","u","t","i","o","n","-","o","f","-","t","h","e","-","c","o","u","n","s","e","l","l","o","r","s">>,
      <<"t","u","r","n","i","n","g","-","p","o","i","n","t">>,
      <<"m","u","h","j","-","1","9","6","3","-","1","9","8","6">> }

PE_compilation_works ==
    { <<"d","a","y","s","-","r","e","m","e","m","b","r","a","n","c","e">>,
      <<"l","i","g","h","t","-","o","f","-","t","h","e","-","w","o","r","l","d">> }

\* filename.lower().replace('.docx', '')
PE_filename_lower(filename) == RemoveAll(Lower(filename), DOCX)

PE_get_author_from_filename(filename) ==
    LET f == PE_filename_lower(filename) IN
    IF f \in PE_bahaullah_works THEN "Baha'u'llah"
    ELSE IF f \in PE_abdul_baha_works THEN "'Abdu'l-Baha"
    ELSE IF f \in PE_bab_works THEN "The Bab"
    ELSE IF f \in PE_shoghi_works THEN "Shoghi Effendi"
    ELSE IF f \in PE_uhj_works THEN "Universal House of Justice"
    ELSE IF f \in PE_compilation_works THEN "Compilations"
    ELSE IF /\ StartsWith(f, << "1", "9" >>) \/ StartsWith(f, << "2", "0" >>)
            /\ Contains(f, "_")
         THEN "Universal House of Justice"
    ELSE "Other"

\* min_words = 100
PE_min_words == 100

RECURSIVE PE_raw_paragraphs(_, _)
\* the enumerate loop from index n on: the stripped text of every paragraph
\* that has one, with its index
PE_raw_paragraphs(doc, n) ==
    IF n < Len(doc)
    THEN LET text == Strip(doc[n + 1])
         IN  (IF text # << >> THEN << [text |-> text, original_id |-> n] >> ELSE << >>)
             \o PE_raw_paragraphs(doc, n + 1)
    ELSE << >>

RECURSIVE PE_InnerLoop(_, _, _, _, _)
\* while j < len(raw_paragraphs) and len(current_text.split()) < min_words
PE_InnerLoop(raw, current_text, combined_ids, j, mw) ==
    IF j < Len(raw) /\ WordCount(current_text) < mw
    THEN PE_InnerLoop(raw,
                      current_text \o << " " >> \o raw[j + 1].text,
                      Append(combined_ids, raw[j + 1].original_id),
                      j + 1, mw)
    ELSE [current_text |-> current_text, combined_ids |-> combined_ids, j |-> j]

\* one iteration of the outer while loop, started with cursor c
PE_MergeIteration(raw, c, mw) ==
    LET current_text == raw[c + 1].text
        current_word_count == WordCount(current_text)
        start_id == raw[c + 1].original_id
    IN  IF current_word_count < mw /\ c < Len(raw) - 1
        THEN LET r == PE_InnerLoop(raw, current_text, << start_id >>, c + 1, mw)
             IN  [current_text |-> r.current_text, combined_ids |-> r.combined_ids, i |-> r.j]
        ELSE [current_text |-> current_text, combined_ids |-> << start_id >>, i |-> c + 1]

PE_document_id(name, combined_ids) ==
    LET prefix == Stem(name) \o << "_", "p", "a", "r", "a", "_" >> IN
    IF Len(combined_ids) = 1
    THEN prefix \o Str(combined_ids[1])
    ELSE prefix \o Str(combined_ids[1]) \o << "-" >> \o Str(combined_ids[Len(combined_ids)])

\* the dictionary appended to combined_paragraphs
PE_Chunk(name, current_text, combined_ids) ==
    [ text         |-> current_text,
      paragraph_id |-> combined_ids[1],
      source_file  |-> name,
      document_id  |-> PE_document_id(name, combined_ids),
      author       |-> PE_get_author_from_filename(name) ]

RECURSIVE PE_MergeFrom(_, _, _, _)
\* the outer while loop from cursor c to its end: the chunks it appends
PE_MergeFrom(name, raw, c, mw) ==
    IF c < Len(raw)
    THEN LET r == PE_MergeIteration(raw, c, mw)
         IN  << PE_Chunk(name, r.current_text, r.combined_ids) >>
             \o PE_MergeFrom(name, raw, r.i, mw)
    ELSE << >>

\* what extractor.extract_paragraphs_from_docx returns for a document
PE_extract_paragraphs_from_docx(name, doc) ==
    PE_MergeFrom(name, PE_raw_paragraphs(doc, 0), 0, PE_min_words)

(* C22: for every document the ParagraphExtractor of the export returns    *)
(* the list of chunks that BahaiWritingsIngestor.extract_paragraphs_from_- *)
(* docx returns: the same chunks in the same order, each with the same     *)
(* text, paragraph_id, source_file, document_id and author. The            *)
(* identifiers exported are therefore the identifiers sent to the index.   *)
C22_ExportSameChunks ==
    Returned =>
        /\ combined_paragraphs = PE_extract_paragraphs_from_docx(file_name, doc_paragraphs)
        /\ [n \in 1..NChunks |-> combined_paragraphs[n].document_id]
             = [n \in 1..Len(PE_extract_paragraphs_from_docx(file_name, doc_paragraphs)) |->
                   PE_extract_paragraphs_from_docx(file_name, doc_paragraphs)[n].document_id]

\* a dated document returned as one chunk merged from two paragraphs
C22_Witness ==
    /\ Returned
    /\ NChunks = 1
    /\ Len(consumed[1]) = 2
    /\ combined_paragraphs[1].author = "Universal House of Justice"
    /\ PE_extract_paragraphs_from_docx(file_name, doc_paragraphs) # << >>

-----------------------------------------------------------------------------
(* The search front-end: BahaiSemanticSearch and perform_search (app.py)   *)

\* the filename -> URL table of get_bahai_library_url, base_url written out
url_mappings ==
    { << <<"k","i","t","a","b","-","i","-","i","q","a","n">>,
         "https://www.bahai.org/library/authoritative-texts/bahaullah/kitab-i-iqan/" >>,
      << <<"h","i","d","d","e","n","-","w","o","r","d","s">>,
         "https://www.bahai.org/library/authoritative-texts/bahaullah/hidden-words/" >>,
      << <<"g","l","e","a","n","i","n","g","s","-","w","r","i","t","i","n","g","s","-","b","a","h","a","u","l","l","a","h">>,
         "https://www.bahai.org/library/authoritative-texts/bahaullah/gleanings-writings-bahaullah/" >>,
      << <<"k","i","t","a","b","-","i","-","a","q","d","a","s","-","2">>,
         "https://www.bahai.org/library/authoritative-texts/bahaullah/kitab-i-aqdas/" >>,
      << <<"e","p","i","s","t","l","e","-","s","o","n","-","w","o","l","f">>,
         "https://www.bahai.org/library/authoritative-texts/bahaullah/epistle-son-wolf/" >>,
      << <<"g","e","m","s","-","d","i","v","i","n","e","-","m","y","s","t","e","r","i","e","s">>,
         "https://www.bahai.org/library/authoritative-texts/bahaullah/gems-divine-mysteries/" >>,
      << <<"s","u","m","m","o","n","s","-","l","o","r","d","-","h","o","s","t","s">>,
         "https://www.bahai.org/library/authoritative-texts/bahaullah/summons-lord-hosts/" >>,
      << <<"t","a","b","l","e","t","s","-","b","a","h","a","u","l","l","a","h">>,
         "https://www.bahai.org/library/authoritative-texts/bahaullah/tablets-bahaullah/" >>,
      << <<"t","a","b","e","r","n","a","c","l","e","-","u","n","i","t","y">>,
         "https://www.bahai.org/library/authoritative-texts/bahaullah/tabernacle-unity/" >>,
      << <<"s","o","m","e","-","a","n","s","w","e","r","e","d","-","q","u","e","s","t","i","o","n","s">>,
         "https://www.bahai.org/library/authoritative-texts/abdul-baha/some-answered-questions/" >>,
      << <<"p","a","r","i","s","-","t","a","l","k","s">>,
         "https://www.bahai.org/library/authoritative-texts/abdul-baha/paris-talks/" >>,
      << <<"p","r","o","m","u","l","g","a","t","i","o","n","-","u","n","i","v","e","r","s","a","l","-","p","e","a","c","e">>,
         "https://www.bahai.org/library/authoritative-texts/abdul-baha/promulgation-universal-peace/" >>,
      << <<"m","e","m","o","r","i","a","l","s","-","f","a","i","t","h","f","u","l">>,
         "https://www.bahai.org/library/authoritative-texts/abdul-baha/memorials-faithful/" >>,
      << <<"s","e","l","e","c","t","i","o","n","s","-","w","r","i","t","i","n","g","s","-","a","b","d","u","l","-","b","a","h","a">>,
         "https://www.bahai.org/library/authoritative-texts/abdul-baha/selections-writings-abdul-baha/" >>,
      << <<"s","e","c","r","e","t","-","d","i","v","i","n","e","-","c","i","v","i","l","i","z","a","t","i","o","n">>,
         "https://www.bahai.org/library/authoritative-texts/abdul-baha/secret-divine-civilization/" >>,
      << <<"t","r","a","v","e","l","e","r","s","-","n","a","r","r","a","t","i","v","e">>,
         "https://www.bahai.org/library/authoritative-texts/abdul-baha/travelers-narrative/" >>,
      << <<"w","i","l","l","-","t","e","s","t","a","m","e","n","t","-","a","b","d","u","l","-","b","a","h","a">>,
         "https://www.bahai.org/library/authoritative-texts/abdul-baha/will-testament-abdul-baha/" >>,
      << <<"t","a","b","l","e","t","s","-","d","i","v","i","n","e","-","p","l","a","n">>,
         "https://www.bahai.org/library/authoritative-texts/abdul-baha/tablets-divine-plan/" >>,
      << <<"t","a","b","l","e","t","-","a","u","g","u","s","t","e","-","f","o","r","e","l">>,
         "https://www.bahai.org/library/authoritative-texts/abdul-baha/tablet-auguste-forel/" >>,
      << <<"s","e","l","e","c","t","i","o","n","s","-","w","r","i","t","i","n","g","s","-","b","a","b">>,
         "https://www.bahai.org/library/authoritative-texts/the-bab/selections-writings-bab/" >>,
      << <<"a","d","v","e","n","t","-","d","i","v","i","n","e","-","j","u","s","t","i","c","e">>,
         "https://www.bahai.org/library/authoritative-texts/shoghi-effendi/advent-divine-justice/" >>,
      << <<"g","o","d","-","p","a","s","s","e","s","-","b","y">>,
         "https://www.bahai.org/library/authoritative-texts/shoghi-effendi/god-passes-by/" >>,
      << <<"p","r","o","m","i","s","e","d","-","d","a","y","-","c","o","m","e">>,
         "https://www.bahai.org/library/authoritative-texts/shoghi-effendi/promised-day-come/" >>,
      << <<"w","o","r","l","d","-","o","r","d","e","r","-","b","a","h","a","u","l","l","a","h">>,
         "https://www.bahai.org/library/authoritative-texts/shoghi-effendi/world-order-bahaullah/" >>,
      << <<"p","r","a","y","e","r","s","-","m","e","d","i","t","a","t","i","o","n","s">>,
         "https://www.bahai.org/library/authoritative-texts/bahaullah/prayers-meditations/" >>,
      << <<"d","a","y","s","-","r","e","m","e","m","b","r","a","n","c","e">>,
         "https://www.bahai.org/library/authoritative-texts/compilations/days-remembrance/" >>,
      << <<"l","i","g","h","t","-","o","f","-","t","h","e","-","w","o","r","l","d">>,
         "https://www.bahai.org/library/authoritative-texts/compilations/light-of-the-world/" >>,
      << <<"t","u","r","n","i","n","g","-","p","o","i","n","t">>,
         "https://www.bahai.org/library/authoritative-texts/compilations/turning-point/" >> }

\* filename = source_file.replace('.docx', '').lower()
url_filename(source_file) == Lower(RemoveAll(source_file, DOCX))

\* url_mappings.get(filename, "https://www.bahai.org/library/")
url_mappings_get(filename) ==
    IF \E e \in url_mappings : e[1] = filename
    THEN (CHOOSE e \in url_mappings : e[1] = filename)[2]
    ELSE "https://www.bahai.org/library/"

get_bahai_library_url(source_file) == url_mappings_get(url_filename(source_file))

\* format_results_html: each result with the link rendered for it
format_results_html(rs) ==
    [n \in 1..Len(rs) |->
        [source_file |-> rs[n], library_url |-> get_bahai_library_url(rs[n])]]

\* the two values of the search_mode radio
JournalEntry == "Journal Entry"
FindAQuote == "Find a Quote"
SearchModes == { JournalEntry, FindAQuote }

\* searches made on one engine, and matches one query returns
MaxSearches == 2
MaxResults == 1

\* queries: empty, whitespace only, and one word with and without blanks
Queries ==
    { << >>, << " " >>, << " ", "\t" >>, << "a" >>, << " ", "a", " " >> }

\* message.content of the chat completion: None or empty, whitespace only,
\* and a sentence with blanks around it
Rewrites == { << >>, << " " >>, << " ", "b", " " >> }

\* source_file metadata of the vectors a query can match
SourceFiles ==
    FileNames \cup
    { <<"H","i","d","d","e","n","-","W","o","r","d","s",".","D","O","C","X">>,
      <<"h","i","d","d","e","n","-","w","o","r","d","s",".","D","O","C","X",".","d","o","c","x">>,
      <<"P","a","r","i","s","-","T","a","l","k","s",".","D","o","c","x">> }

appCalls == << rewrite_calls, embedding_calls, query_calls >>

\* search() returns rs: to its caller as a list, or through perform_search,
\* which renders it with format_results_html
Return(rs) ==
    /\ app_pc' = "idle"
    /\ results' = rs
    /\ IF caller = "search"
       THEN /\ html' = "returned"
            /\ shown' = << >>
       ELSE /\ html' = IF rs = << >> THEN "no_results" ELSE "results"
            /\ shown' = format_results_html(rs)
    /\ UNCHANGED errors

\* a RuntimeError leaves search(): it reaches the caller of search(), or the
\* except clause of perform_search, which returns the error message
Raise ==
    /\ app_pc' = "idle"
    /\ results' = << >>
    /\ shown' = << >>
    /\ IF caller = "search"
       THEN /\ html' = "raised"
            /\ UNCHANGED errors
       ELSE /\ html' = "error"
            /\ errors' = errors + 1

\* perform_search up to its first call of a service
PerformSearch ==
    /\ app_pc = "idle"
    /\ searches < MaxSearches
    /\ \E q \in Queries, mode \in SearchModes :
          /\ query' = q
          /\ search_mode' = mode
          /\ IF q = << >> \/ Strip(q) = << >>
             THEN /\ app_pc' = "idle"
                  /\ html' = "prompt"
                  /\ search_text' = << >>
             ELSE /\ html' = "none"
                  /\ IF mode = JournalEntry
                     THEN /\ app_pc' = "rewrite"
                          /\ search_text' = << >>
                     ELSE /\ app_pc' = "search"
                          /\ search_text' = q
    /\ caller' = "perform_search"
    /\ results' = << >>
    /\ shown' = << >>
    /\ searches' = searches + 1
    /\ UNCHANGED << appCalls, errors >>
    /\ UNCHANGED << extractVars, mainVars >>

\* process_journal_entry returns: the stripped content, "" when there is none
RewriteOk ==
    /\ app_pc = "rewrite"
    /\ rewrite_calls' = rewrite_calls + 1
    /\ \E content \in Rewrites :
          LET processed_query == IF content = << >> THEN << >> ELSE Strip(content)
          IN  IF processed_query # << >>
              THEN /\ search_text' = processed_query
                   /\ app_pc' = "search"
                   /\ UNCHANGED html
              ELSE /\ search_text' = << >>
                   /\ app_pc' = "idle"
                   /\ html' = "failed_journal"
    /\ UNCHANGED << caller, query, search_mode, results, shown, embedding_calls,
                    query_calls, searches, errors >>
    /\ UNCHANGED << extractVars, mainVars >>

\* the chat completion raises: process_journal_entry raises RuntimeError
RewriteFail ==
    /\ app_pc = "rewrite"
    /\ rewrite_calls' = rewrite_calls + 1
    /\ Raise
    /\ UNCHANGED << caller, query, search_mode, search_text, embedding_calls,
                    query_calls, searches >>
    /\ UNCHANGED << extractVars, mainVars >>

\* search() called by another caller than perform_search
SearchCall ==
    /\ app_pc = "idle"
    /\ searches < MaxSearches
    /\ \E q \in Queries :
          /\ query' = q
          /\ search_text' = q
    /\ caller' = "search"
    /\ app_pc' = "search"
    /\ html' = "none"
    /\ results' = << >>
    /\ shown' = << >>
    /\ searches' = searches + 1
    /\ UNCHANGED << search_mode, appCalls, errors >>
    /\ UNCHANGED << extractVars, mainVars >>

\* search() without its test of query.strip(): the embedding is requested
SearchBlankEmbeds ==
    /\ app_pc = "search"
    /\ Strip(search_text) = << >>
    /\ embedding_calls' = embedding_calls + 1
    /\ app_pc' = "query"
    /\ UNCHANGED << caller, query, search_mode, search_text, html, results, shown,
                    rewrite_calls, query_calls, searches, errors >>
    /\ UNCHANGED << extractVars, mainVars >>

\* if not query.strip(): return []
SearchBlank ==
    /\ app_pc = "search"
    /\ Strip(search_text) = << >>
    /\ Return(<< >>)
    /\ UNCHANGED << caller, query, search_mode, search_text, appCalls, searches >>
    /\ UNCHANGED << extractVars, mainVars >>

\* generate_query_embedding returns an embedding
EmbeddingOk ==
    /\ app_pc = "search"
    /\ Strip(search_text) # << >>
    /\ embedding_calls' = embedding_calls + 1
    /\ app_pc' = "query"
    /\ UNCHANGED << caller, query, search_mode, search_text, html, results, shown,
                    rewrite_calls, query_calls, searches, errors >>
    /\ UNCHANGED << extractVars, mainVars >>

\* generate_query_embedding returns an empty list: search() returns []
EmbeddingEmpty ==
    /\ app_pc = "search"
    /\ Strip(search_text) # << >>
    /\ embedding_calls' = embedding_calls + 1
    /\ Return(<< >>)
    /\ UNCHANGED << caller, query, search_mode, search_text, rewrite_calls,
                    query_calls, searches >>
    /\ UNCHANGED << extractVars, mainVars >>

\* the embedding service raises: generate_query_embedding raises RuntimeError
EmbeddingFail ==
    /\ app_pc = "search"
    /\ Strip(search_text) # << >>
    /\ embedding_calls' = embedding_calls + 1
    /\ Raise
    /\ UNCHANGED << caller, query, search_mode, search_text, rewrite_calls,
                    query_calls, searches >>
    /\ UNCHANGED << extractVars, mainVars >>

\* index.query returns its matches
QueryOk ==
    /\ app_pc = "query"
    /\ query_calls' = query_calls + 1
    /\ \E rs \in SeqsUpTo(SourceFiles, MaxResults) : Return(rs)
    /\ UNCHANGED << caller, query, search_mode, search_text, rewrite_calls,
                    embedding_calls, searches >>
    /\ UNCHANGED << extractVars, mainVars >>

\* index.query raises and perform_search has no except clause: the error
\* leaves perform_search
QueryFailUncaught ==
    /\ app_pc = "query"
    /\ query_calls' = query_calls + 1
    /\ app_pc' = "idle"
    /\ results' = << >>
    /\ shown' = << >>
    /\ html' = "raised"
    /\ UNCHANGED << caller, query, search_mode, search_text, rewrite_calls,
                    embedding_calls, searches, errors >>
    /\ UNCHANGED << extractVars, mainVars >>

\* index.query raises: search() raises RuntimeError
QueryFail ==
    /\ app_pc = "query"
    /\ query_calls' = query_calls + 1
    /\ Raise
    /\ UNCHANGED << caller, query, search_mode, search_text, rewrite_calls,
                    embedding_calls, searches >>
    /\ UNCHANGED << extractVars, mainVars >>

NextApp ==
    \/ PerformSearch
    \/ RewriteOk
    \/ RewriteFail
    \/ SearchCall
    \/ SearchBlank
    \/ EmbeddingOk
    \/ EmbeddingEmpty
    \/ EmbeddingFail
    \/ QueryOk
    \/ QueryFail

InitApp == ExtractIdle /\ MainIdle /\ AppIdle

\* searches on one engine, by perform_search and by direct calls of search()
SpecApp == InitApp /\ [][NextApp]_vars

-----------------------------------------------------------------------------
(* Claims on the search front-end                                          *)

\* the table looked up under the key get_author_from_filename computes
UrlOfAuthorKey(source_file) == url_mappings_get(filename_lower(source_file))

\* every ".docx" in the name, in whatever case, is written in lower case
LowercaseExtensions(name) ==
    \A n \in 1..(Len(name) - Len(DOCX) + 1) :
        Lower(SubSeq(name, n, n + Len(DOCX) - 1)) = DOCX
            => SubSeq(name, n, n + Len(DOCX) - 1) = DOCX

(* C11 as stated: the link rendered for every result is the URL the table  *)
(* maps the name to under the normalisation of get_author_from_filename,   *)
(* and the generic library root when the table has no such key.            *)
C11_SameNormalisation ==
    \A n \in 1..Len(shown) :
        shown[n].library_url = UrlOfAuthorKey(shown[n].source_file)

\* the two normalisations agree on names whose extensions are in lower case
C11_SameNormalisationLowercase ==
    \A n \in 1..Len(shown) :
        LowercaseExtensions(shown[n].source_file) =>
            shown[n].library_url = UrlOfAuthorKey(shown[n].source_file)

(* C17: an empty or whitespace-only query is a no-op. search() on such a   *)
(* query returns an empty list, raises nothing and calls neither the       *)
(* embedding service nor the store; perform_search on such a query returns *)
(* at once and makes no rewrite, embedding or store call.                  *)
C17_BlankQueryNoOp ==
    [][ /\ (app_pc = "search" /\ Strip(search_text) = << >>) =>
              /\ app_pc' = "idle"
              /\ results' = << >>
              /\ html' \in { "returned", "no_results" }
              /\ UNCHANGED appCalls
        /\ (app_pc = "idle" /\ caller' = "perform_search" /\ Strip(query') = << >>) =>
              /\ app_pc' = "idle"
              /\ html' = "prompt"
              /\ results' = << >>
              /\ UNCHANGED appCalls
      ]_vars

\* two searches made, the last one search() on a whitespace-only query, and
\* no service was ever called
C17_Witness ==
    /\ app_pc = "idle"
    /\ searches = 2
    /\ caller = "search"
    /\ query = << " ", "\t" >>
    /\ html = "returned"
    /\ results = << >>
    /\ appCalls = << 0, 0, 0 >>

(* C18: a failure of the rewrite service, the embedding service or the     *)
(* store query inside perform_search becomes an error message: nothing is  *)
(* raised out of perform_search, only that search ends, and the engine     *)
(* accepts the next search.                                                *)
C18_FailureBecomesMessage ==
    /\ [][
          /\ (caller = "perform_search" /\ (RewriteFail \/ EmbeddingFail \/ QueryFail)) =>
                /\ html' = "error"
                /\ app_pc' = "idle"
                /\ errors' = errors + 1
          /\ caller' = "perform_search" => html' # "raised"
        ]_vars
    /\ [] ( (html = "error" /\ searches < MaxSearches) =>
                /\ app_pc = "idle"
                /\ ENABLED PerformSearch
                /\ ENABLED SearchCall )

\* a search that returned results after an earlier one ended in an error
C18_Witness ==
    /\ errors >= 1
    /\ caller = "perform_search"
    /\ html = "results"
    /\ Len(shown) >= 1

-----------------------------------------------------------------------------
(* The script: __main__, main, ingest_document, ingest_paragraphs,         *)
(* move_document_to_indexed and export_paragraphs_to_json (ingest.py).     *)
(* A chunk of a document is its position in the list that                  *)
(* extract_paragraphs_from_docx returns; its vector id is the pair of the  *)
(* document and that position.                                             *)

\* batch_size = 100
batch_size == 100

\* the .docx files, in sorted() order
DocList == << "a.docx", "b.docx" >>
Docs == { DocList[n] : n \in 1..Len(DocList) }

\* lengths of the list extract_paragraphs_from_docx returns: no chunk, less
\* than a batch, and a batch and one more
ChunkCounts == { 0, 2, batch_size + 1 }

\* the embedding call can fail on the chunks at positions 1..EmbedFailWindow
EmbedFailWindow == 2

\* what the user types at the confirmation prompt
Answers ==
    { << >>, << "n" >>, << "y" >>, << " ", "Y", "E", "S", " " >>, << "y", "e" >> }

\* ['y', 'yes']
Confirmations == { << "y" >>, << "y", "e", "s" >> }

\* a vector the index held before the run
OldVector == << "old.docx", 1 >>

\* the orders in which glob() can list the files of a directory
Listings(dir) ==
    { fs \in SeqsUpTo(dir, Cardinality(dir)) :
        /\ Len(fs) = Cardinality(dir)
        /\ \A m, n \in 1..Len(fs) : m # n => fs[m] # fs[n] }

\* sorted(docx_files)
Sorted(dir) ==
    CHOOSE fs \in Listings(dir) :
        \A m, n \in 1..Len(fs) :
            m < n => \E x, y \in 1..Len(DocList) :
                        x < y /\ DocList[x] = fs[m] /\ DocList[y] = fs[n]

\* the document the loop of main or of the export is at
docx_file == docx_files[file_index]

\* the chunks of the document at hand that the index holds
Upserted(d) == { id[2] : id \in { e \in store : e[1] = d } }

mainCalls == << embed_calls, store_calls >>
dirs == << corpus_dir, indexed_dir >>
ingestVars == << paragraphs, para_index, vectors, batch_start, embed_failed >>
exportVars == << all_paragraphs, json_file >>
argVars == << export_json, input_dir, have_keys >>

\* the for loop of main goes to its next document, or ends
NextDocument ==
    IF file_index < Len(docx_files)
    THEN /\ file_index' = file_index + 1
         /\ mpc' = "doc"
    ELSE /\ mpc' = "final_stats"
         /\ UNCHANGED file_index

\* except Exception as e: logger.error(f"Failed to ingest {docx_file}: {e}")
Caught(e) ==
    /\ failed_docs' = failed_docs \cup { << docx_file, e >> }
    /\ NextDocument

\* __main__ without --export-json calls main(), which reads the two keys
MainKeys ==
    /\ mpc = "start"
    /\ ~ export_json
    /\ mpc' = IF have_keys THEN "init" ELSE "raised"
    /\ UNCHANGED << argVars, confirmation, dirs, docx_files, file_index, store, ingestVars,
                    mainCalls, failed_docs, exportVars >>
    /\ UNCHANGED << extractVars, appVars >>

\* BahaiWritingsIngestor.__init__: list_indexes, create_index, Index
IngestorInitOk ==
    /\ mpc = "init"
    /\ store_calls' = store_calls + 1
    /\ mpc' = "stats"
    /\ UNCHANGED << argVars, confirmation, dirs, docx_files, file_index, store, ingestVars,
                    embed_calls, failed_docs, exportVars >>
    /\ UNCHANGED << extractVars, appVars >>

IngestorInitFail ==
    /\ mpc = "init"
    /\ store_calls' = store_calls + 1
    /\ mpc' = "raised"
    /\ UNCHANGED << argVars, confirmation, dirs, docx_files, file_index, store, ingestVars,
                    embed_calls, failed_docs, exportVars >>
    /\ UNCHANGED << extractVars, appVars >>

\* stats = ingestor.get_index_stats(); if stats > 0
StatsOk ==
    /\ mpc = "stats"
    /\ store_calls' = store_calls + 1
    /\ mpc' = IF Cardinality(store) > 0 THEN "confirm" ELSE "glob"
    /\ UNCHANGED << argVars, confirmation, dirs, docx_files, file_index, store, ingestVars,
                    embed_calls, failed_docs, exportVars >>
    /\ UNCHANGED << extractVars, appVars >>

StatsFail ==
    /\ mpc = "stats"
    /\ store_calls' = store_calls + 1
    /\ mpc' = "raised"
    /\ UNCHANGED << argVars, confirmation, dirs, docx_files, file_index, store, ingestVars,
                    embed_calls, failed_docs, exportVars >>
    /\ UNCHANGED << extractVars, appVars >>

\* the prompt taking every answer but n for a yes
ConfirmUnlessNo ==
    /\ mpc = "confirm"
    /\ \E answer \in Answers :
          /\ confirmation' = confirmation \cup { Lower(Strip(answer)) }
          /\ mpc' = IF Lower(Strip(answer)) # << "n" >> THEN "clear" ELSE "done"
    /\ UNCHANGED << argVars, dirs, docx_files, file_index, store, ingestVars,
                    mainCalls, failed_docs, exportVars >>
    /\ UNCHANGED << extractVars, appVars >>

\* confirmation = input(...).strip().lower(); if confirmation in ['y', 'yes']
Confirm ==
    /\ mpc = "confirm"
    /\ \E answer \in Answers :
          /\ confirmation' = confirmation \cup { Lower(Strip(answer)) }
          /\ mpc' = IF Lower(Strip(answer)) \in Confirmations THEN "clear" ELSE "done"
    /\ UNCHANGED << argVars, dirs, docx_files, file_index, store, ingestVars,
                    mainCalls, failed_docs, exportVars >>
    /\ UNCHANGED << extractVars, appVars >>

\* clear_index: self.index.delete(delete_all=True)
ClearOk ==
    /\ mpc = "clear"
    /\ store_calls' = store_calls + 1
    /\ store' = {}
    /\ mpc' = "glob"
    /\ UNCHANGED << argVars, confirmation, dirs, docx_files, file_index, ingestVars,
                    embed_calls, failed_docs, exportVars >>
    /\ UNCHANGED << extractVars, appVars >>

ClearFail ==
    /\ mpc = "clear"
    /\ store_calls' = store_calls + 1
    /\ mpc' = "raised"
    /\ UNCHANGED << argVars, confirmation, dirs, docx_files, file_index, store, ingestVars,
                    embed_calls, failed_docs, exportVars >>
    /\ UNCHANGED << extractVars, appVars >>

\* docx_files = list(Path("./corpus").glob("*.docx")); if not docx_files: return
Glob ==
    /\ mpc = "glob"
    /\ \E fs \in Listings(corpus_dir) :
          /\ docx_files' = fs
          /\ IF fs = << >>
             THEN /\ mpc' = "done"
                  /\ file_index' = 0
             ELSE /\ mpc' = "doc"
                  /\ file_index' = 1
    /\ UNCHANGED << argVars, confirmation, dirs, store, ingestVars, mainCalls, failed_docs,
                    exportVars >>
    /\ UNCHANGED << extractVars, appVars >>

\* the file is taken away, by someone else, after it was listed
FileRemoved ==
    /\ mpc = "doc"
    /\ docx_file \in corpus_dir
    /\ corpus_dir' = corpus_dir \ { docx_file }
    /\ UNCHANGED << argVars, confirmation, mpc, indexed_dir, docx_files, file_index, store,
                    ingestVars, mainCalls, failed_docs, exportVars >>
    /\ UNCHANGED << extractVars, appVars >>

\* ingest_document: if not os.path.exists(file_path): raise FileNotFoundError
DocMissing ==
    /\ mpc = "doc"
    /\ docx_file \notin corpus_dir
    /\ Caught("FileNotFoundError")
    /\ UNCHANGED << argVars, confirmation, dirs, docx_files, store, ingestVars, mainCalls,
                    exportVars >>
    /\ UNCHANGED << extractVars, appVars >>

\* extract_paragraphs_from_docx raises: the file is not a readable document
ExtractFail ==
    /\ mpc = "doc"
    /\ docx_file \in corpus_dir
    /\ Caught("extract")
    /\ UNCHANGED << argVars, confirmation, dirs, docx_files, store, ingestVars, mainCalls,
                    exportVars >>
    /\ UNCHANGED << extractVars, appVars >>

\* paragraphs = self.extract_paragraphs_from_docx(file_path); vectors = []
ExtractOk ==
    /\ mpc = "doc"
    /\ docx_file \in corpus_dir
    /\ \E n \in ChunkCounts : paragraphs' = n
    /\ para_index' = 0
    /\ vectors' = << >>
    /\ batch_start' = 0
    /\ embed_failed' = {}
    /\ mpc' = "embed"
    /\ UNCHANGED << argVars, confirmation, dirs, docx_files, file_index, store, mainCalls,
                    failed_docs, exportVars >>
    /\ UNCHANGED << extractVars, appVars >>

\* generate_embedding returns: vectors.append(vector)
EmbedOk ==
    /\ mpc = "embed"
    /\ para_index < paragraphs
    /\ embed_calls' = embed_calls + 1
    /\ vectors' = Append(vectors, para_index + 1)
    /\ para_index' = para_index + 1
    /\ UNCHANGED << argVars, confirmation, mpc, dirs, docx_files, file_index, store, paragraphs,
                    batch_start, embed_failed, store_calls, failed_docs, exportVars >>
    /\ UNCHANGED << extractVars, appVars >>

\* the loop of ingest_paragraphs without its try: the error of
\* generate_embedding leaves ingest_paragraphs and reaches main
EmbedFailPropagates ==
    /\ mpc = "embed"
    /\ para_index < paragraphs
    /\ para_index + 1 <= EmbedFailWindow
    /\ embed_calls' = embed_calls + 1
    /\ embed_failed' = embed_failed \cup { para_index + 1 }
    /\ Caught("embedding")
    /\ UNCHANGED << argVars, confirmation, dirs, docx_files, store, paragraphs, para_index,
                    vectors, batch_start, store_calls, exportVars >>
    /\ UNCHANGED << extractVars, appVars >>

\* generate_embedding raises: except Exception: logger.error(...); continue
EmbedFail ==
    /\ mpc = "embed"
    /\ para_index < paragraphs
    /\ para_index + 1 <= EmbedFailWindow
    /\ embed_calls' = embed_calls + 1
    /\ embed_failed' = embed_failed \cup { para_index + 1 }
    /\ para_index' = para_index + 1
    /\ UNCHANGED << argVars, confirmation, mpc, dirs, docx_files, file_index, store, paragraphs,
                    vectors, batch_start, store_calls, failed_docs, exportVars >>
    /\ UNCHANGED << extractVars, appVars >>

\* the loop over paragraphs ends: if vectors: for i in range(0, len(vectors), batch_size)
EmbedEnd ==
    /\ mpc = "embed"
    /\ para_index = paragraphs
    /\ mpc' = IF vectors # << >> THEN "upsert" ELSE "move"
    /\ batch_start' = 0
    /\ UNCHANGED << argVars, confirmation, dirs, docx_files, file_index, store, paragraphs,
                    para_index, vectors, embed_failed, mainCalls, failed_docs,
                    exportVars >>
    /\ UNCHANGED << extractVars, appVars >>

\* batch = vectors[i:i + batch_size]
Batch ==
    { << docx_file, vectors[n] >> :
        n \in (batch_start + 1)..
              (IF batch_start + batch_size < Len(vectors)
               THEN batch_start + batch_size ELSE Len(vectors)) }

\* self.index.upsert(vectors=batch) returns
UpsertOk ==
    /\ mpc = "upsert"
    /\ batch_start < Len(vectors)
    /\ store_calls' = store_calls + 1
    /\ store' = store \cup Batch
    /\ batch_start' = batch_start + batch_size
    /\ mpc' = IF batch_start + batch_size < Len(vectors) THEN "upsert" ELSE "move"
    /\ UNCHANGED << argVars, confirmation, dirs, docx_files, file_index, paragraphs, para_index,
                    vectors, embed_failed, embed_calls, failed_docs, exportVars >>
    /\ UNCHANGED << extractVars, appVars >>

\* a failed upsert that takes the earlier batches of the document back
UpsertFailRollback ==
    /\ mpc = "upsert"
    /\ batch_start < Len(vectors)
    /\ store_calls' = store_calls + 1
    /\ store' = { e \in store : e[1] # docx_file }
    /\ Caught("upsert")
    /\ UNCHANGED << argVars, confirmation, dirs, docx_files, ingestVars, embed_calls, exportVars >>
    /\ UNCHANGED << extractVars, appVars >>

\* a failed upsert after which the document is moved all the same
UpsertFailStillMoves ==
    /\ mpc = "upsert"
    /\ batch_start < Len(vectors)
    /\ store_calls' = store_calls + 1
    /\ corpus_dir' = corpus_dir \ { docx_file }
    /\ indexed_dir' = indexed_dir \cup { docx_file }
    /\ Caught("upsert")
    /\ UNCHANGED << argVars, confirmation, docx_files, store, ingestVars, embed_calls, exportVars >>
    /\ UNCHANGED << extractVars, appVars >>

\* a failed upsert that main does not catch: the script ends
UpsertFailHalts ==
    /\ mpc = "upsert"
    /\ batch_start < Len(vectors)
    /\ store_calls' = store_calls + 1
    /\ failed_docs' = failed_docs \cup { << docx_file, "upsert" >> }
    /\ mpc' = "raised"
    /\ UNCHANGED << argVars, confirmation, dirs, docx_files, file_index, store, ingestVars,
                    embed_calls, exportVars >>
    /\ UNCHANGED << extractVars, appVars >>

\* self.index.upsert(vectors=batch) raises: the error leaves ingest_paragraphs
\* and ingest_document, and main logs it
UpsertFail ==
    /\ mpc = "upsert"
    /\ batch_start < Len(vectors)
    /\ store_calls' = store_calls + 1
    /\ Caught("upsert")
    /\ UNCHANGED << argVars, confirmation, dirs, docx_files, store, ingestVars, embed_calls,
                    exportVars >>
    /\ UNCHANGED << extractVars, appVars >>

\* move_document_to_indexed: shutil.move returns
MoveOk ==
    /\ mpc = "move"
    /\ corpus_dir' = corpus_dir \ { docx_file }
    /\ indexed_dir' = indexed_dir \cup { docx_file }
    /\ NextDocument
    /\ UNCHANGED << argVars, confirmation, docx_files, store, ingestVars, mainCalls, failed_docs,
                    exportVars >>
    /\ UNCHANGED << extractVars, appVars >>

\* shutil.move raises: logged and raised again, main logs it
MoveFail ==
    /\ mpc = "move"
    /\ Caught("move")
    /\ UNCHANGED << argVars, confirmation, dirs, docx_files, store, ingestVars, mainCalls,
                    exportVars >>
    /\ UNCHANGED << extractVars, appVars >>

\* the last line of main: ingestor.get_index_stats()
FinalStatsOk ==
    /\ mpc = "final_stats"
    /\ store_calls' = store_calls + 1
    /\ mpc' = "done"
    /\ UNCHANGED << argVars, confirmation, dirs, docx_files, file_index, store, ingestVars,
                    embed_calls, failed_docs, exportVars >>
    /\ UNCHANGED << extractVars, appVars >>

FinalStatsFail ==
    /\ mpc = "final_stats"
    /\ store_calls' = store_calls + 1
    /\ mpc' = "raised"
    /\ UNCHANGED << argVars, confirmation, dirs, docx_files, file_index, store, ingestVars,
                    embed_calls, failed_docs, exportVars >>
    /\ UNCHANGED << extractVars, appVars >>

\* the for loop of export_paragraphs_to_json goes to its next document, or ends
ExportNext ==
    IF file_index < Len(docx_files)
    THEN /\ file_index' = file_index + 1
         /\ mpc' = "export_doc"
    ELSE /\ mpc' = "export_write"
         /\ UNCHANGED file_index

\* Path(input_dir).glob("*.docx")
InputFiles == IF input_dir = "corpus" THEN corpus_dir ELSE indexed_dir

\* __main__ with --export-json calls export_paragraphs_to_json, which lists
\* the input directory, returns when it holds no document, and goes through
\* sorted(docx_files)
ExportGlob ==
    /\ mpc = "start"
    /\ export_json
    /\ IF InputFiles = {}
       THEN /\ docx_files' = << >>
            /\ file_index' = 0
            /\ mpc' = "done"
       ELSE /\ docx_files' = Sorted(InputFiles)
            /\ file_index' = 1
            /\ mpc' = "export_doc"
    /\ all_paragraphs' = << >>
    /\ UNCHANGED << argVars, confirmation, dirs, store, ingestVars, mainCalls, failed_docs,
                    json_file >>
    /\ UNCHANGED << extractVars, appVars >>

\* the export requesting an embedding for each chunk it extracts
ExportDocOkEmbeds ==
    /\ mpc = "export_doc"
    /\ \E n \in ChunkCounts :
          /\ all_paragraphs' =
                all_paragraphs \o [c \in 1..n |-> << docx_file, c >>]
          /\ embed_calls' = embed_calls + n
    /\ ExportNext
    /\ UNCHANGED << argVars, confirmation, dirs, docx_files, store, ingestVars, store_calls,
                    failed_docs, json_file >>
    /\ UNCHANGED << extractVars, appVars >>

\* paragraphs = extractor.extract_paragraphs_from_docx(...);
\* all_paragraphs.extend(paragraphs)
ExportDocOk ==
    /\ mpc = "export_doc"
    /\ \E n \in ChunkCounts :
          all_paragraphs' = all_paragraphs \o [c \in 1..n |-> << docx_file, c >>]
    /\ ExportNext
    /\ UNCHANGED << argVars, confirmation, dirs, docx_files, store, ingestVars, mainCalls,
                    failed_docs, json_file >>
    /\ UNCHANGED << extractVars, appVars >>

\* the extraction raises: logger.error(f"Failed to process ..."), next document
ExportDocFail ==
    /\ mpc = "export_doc"
    /\ failed_docs' = failed_docs \cup { << docx_file, "extract" >> }
    /\ ExportNext
    /\ UNCHANGED << argVars, confirmation, dirs, docx_files, store, ingestVars, mainCalls,
                    exportVars >>
    /\ UNCHANGED << extractVars, appVars >>

\* json.dump(all_paragraphs, f, ...)
ExportWrite ==
    /\ mpc = "export_write"
    /\ json_file' = { all_paragraphs }
    /\ mpc' = "done"
    /\ UNCHANGED << argVars, confirmation, dirs, docx_files, file_index, store, ingestVars,
                    mainCalls, failed_docs, all_paragraphs >>
    /\ UNCHANGED << extractVars, appVars >>

NextIngest ==
    \/ MainKeys
    \/ IngestorInitOk
    \/ IngestorInitFail
    \/ StatsOk
    \/ StatsFail
    \/ Confirm
    \/ ClearOk
    \/ ClearFail
    \/ Glob
    \/ FileRemoved
    \/ DocMissing
    \/ ExtractFail
    \/ ExtractOk
    \/ EmbedOk
    \/ EmbedFail
    \/ EmbedEnd
    \/ UpsertOk
    \/ UpsertFail
    \/ MoveOk
    \/ MoveFail
    \/ FinalStatsOk
    \/ FinalStatsFail
    \/ ExportGlob
    \/ ExportDocOk
    \/ ExportDocFail
    \/ ExportWrite

\* the command line, the secrets, the two directories and the index before
\* the script starts
InitIngest ==
    /\ ExtractIdle
    /\ AppIdle
    /\ export_json \in BOOLEAN
    /\ input_dir \in (IF export_json THEN { "corpus", "corpus_indexed" }
                                     ELSE { "corpus_indexed" })
    /\ have_keys \in BOOLEAN
    /\ mpc = "start"
    /\ confirmation = {}
    /\ corpus_dir \in SUBSET Docs
    /\ indexed_dir \in SUBSET (Docs \ corpus_dir)
    /\ docx_files = << >>
    /\ file_index = 0
    /\ store \in { {}, { OldVector } }
    /\ paragraphs = 0
    /\ para_index = 0
    /\ vectors = << >>
    /\ batch_start = 0
    /\ embed_failed = {}
    /\ embed_calls = 0
    /\ store_calls = 0
    /\ failed_docs = {}
    /\ all_paragraphs = << >>
    /\ json_file = {}

\* one run of the script
SpecIngest == InitIngest /\ [][NextIngest]_vars

-----------------------------------------------------------------------------
(* Claims on the script                                                    *)

Range(f) == { f[n] : n \in DOMAIN f }

\* the documents whose failure main has logged
FailedNames == { f[1] : f \in failed_docs }

\* ingest_document is at work on docx_file
InDocument == mpc \in { "doc", "embed", "upsert", "move" }

(* C12: when the embedding of one chunk fails inside ingest_paragraphs,    *)
(* only that chunk is dropped and the loop goes on with the next chunk;    *)
(* nothing reaches the caller. The list of vectors is, in the original     *)
(* order, the chunks embedded so far without error, an embedding is        *)
(* requested for every chunk, and what the index holds of the document     *)
(* after its last batch is exactly the chunks whose embedding succeeded.   *)
C12_EmbeddingFailureSkipsChunk ==
    /\ [][
          (mpc = "embed" /\ embed_failed' # embed_failed) =>
              /\ mpc' = "embed"
              /\ embed_failed' = embed_failed \cup { para_index + 1 }
              /\ para_index' = para_index + 1
              /\ vectors' = vectors
              /\ UNCHANGED << failed_docs, file_index, store >>
        ]_vars
    /\ [] ( mpc \in { "embed", "upsert", "move" } =>
              /\ \A n \in 1..(Len(vectors) - 1) : vectors[n] < vectors[n + 1]
              /\ Range(vectors) = (1..para_index) \ embed_failed )
    /\ [] ( mpc \in { "upsert", "move" } => para_index = paragraphs )
    /\ [] ( mpc = "move" =>
              Upserted(docx_file) = (1..paragraphs) \ embed_failed )

\* a document of more than one batch whose first chunk failed to embed and
\* whose other chunks are all in the index
C12_Witness ==
    /\ mpc = "move"
    /\ paragraphs = batch_size + 1
    /\ embed_failed = { 1 }
    /\ Upserted(docx_file) = 2..(batch_size + 1)
    /\ docx_file \notin FailedNames

(* C13: when the upsert of a batch fails, the error leaves                 *)
(* ingest_paragraphs and reaches main, no later batch of the document is   *)
(* attempted, and the batches upserted before it stay in the index:        *)
(* nothing is taken out of the index while documents are ingested.         *)
C13_UpsertFailureNoRollback ==
    /\ [][
          (mpc = "upsert" /\ << docx_file, "upsert" >> \in failed_docs') =>
              /\ store' = store
              /\ \A n \in 1..batch_start : << docx_file, vectors[n] >> \in store'
              /\ mpc' \in { "doc", "final_stats" }
              /\ mpc' = "doc" => file_index' = file_index + 1
        ]_vars
    /\ [][ (InDocument \/ mpc = "final_stats") => store \subseteq store' ]_vars
    /\ [] ( InDocument => docx_file \notin FailedNames )

\* the run is over, the second batch of a document failed and its first
\* batch is in the index
C13_Witness ==
    /\ mpc = "done"
    /\ \E f \in failed_docs :
          /\ f[2] = "upsert"
          /\ Cardinality(Upserted(f[1])) = batch_size

(* C14: a document enters the indexed directory only by the move at the    *)
(* end of ingest_document, after its extraction, the embedding loop over   *)
(* all its chunks and every upsert batch went through with no error        *)
(* raised; a document whose ingestion raised is logged by main and is not  *)
(* moved: the step that fails changes neither directory.                   *)
C14_MovedOnlyAfterSuccess ==
    /\ [][
          indexed_dir' # indexed_dir =>
              /\ mpc = "move"
              /\ para_index = paragraphs
              /\ batch_start >= Len(vectors)
              /\ Upserted(docx_file) = Range(vectors)
              /\ docx_file \notin FailedNames
              /\ indexed_dir' = indexed_dir \cup { docx_file }
              /\ corpus_dir' = corpus_dir \ { docx_file }
        ]_vars
    /\ [][ failed_docs' # failed_docs => dirs' = dirs ]_vars
    /\ [] ( ~ export_json => FailedNames \cap indexed_dir = {} )

\* the run is over: one document was moved with its vectors in the index,
\* another one failed at an upsert and is still in the corpus directory
C14_Witness ==
    /\ ~ export_json
    /\ mpc = "done"
    /\ \E d \in Range(docx_files) :
          /\ d \in indexed_dir
          /\ Upserted(d) # {}
    /\ \E f \in failed_docs :
          /\ f[2] = "upsert"
          /\ f[1] \in corpus_dir

(* C15 as stated: after the upsert of one document has failed the run is   *)
(* halted, so from then on no embedding is requested, nothing enters the   *)
(* index, no document is moved and the loop takes up no other document.    *)
C15_FailureHaltsRun ==
    [][ (\E f \in failed_docs : f[2] = "upsert") =>
            /\ embed_calls' = embed_calls
            /\ store' = store
            /\ indexed_dir' = indexed_dir
            /\ file_index' = file_index
      ]_vars

(* C15 as amended: an upsert failure ends the ingestion of that document   *)
(* only. main catches it, logs it, and its loop goes on with the next      *)
(* document of the list; after the last document it queries the final      *)
(* statistics.                                                             *)
C15_FailureSkipsDocument ==
    [][ (mpc = "upsert" /\ << docx_file, "upsert" >> \in failed_docs') =>
            /\ failed_docs' = failed_docs \cup { << docx_file, "upsert" >> }
            /\ IF file_index < Len(docx_files)
               THEN /\ mpc' = "doc"
                    /\ file_index' = file_index + 1
               ELSE /\ mpc' = "final_stats"
                    /\ file_index' = file_index
      ]_vars

\* the run is over: the first document failed at an upsert, the second one
\* was ingested and moved
C15_Witness ==
    /\ mpc = "done"
    /\ Len(docx_files) = 2
    /\ << docx_files[1], "upsert" >> \in failed_docs
    /\ docx_files[2] \in indexed_dir
    /\ Upserted(docx_files[2]) # {}

(* C16: with --export-json the script lists the input directory, extracts  *)
(* the chunks of each document and writes the list to the JSON file. It    *)
(* requests no embedding, calls the index for nothing, reads no API key,   *)
(* so it ends without error whether the keys are there or not, and changes *)
(* neither directory. Without the flag it runs main: the keys are read and *)
(* no JSON file is written.                                                *)
C16_ExportOnly ==
    /\ [][
          export_json =>
              /\ UNCHANGED << mainCalls, store, dirs >>
              /\ mpc' \in { "export_doc", "export_write", "done" }
        ]_vars
    /\ [] ( (export_json /\ mpc = "done" /\ InputFiles # {}) =>
               json_file = { all_paragraphs } )
    /\ [] ( ~ export_json =>
               /\ json_file = {}
               /\ mpc \notin { "export_doc", "export_write" } )
    /\ [][ (~ export_json /\ mpc = "start") =>
               mpc' = IF have_keys THEN "init" ELSE "raised" ]_vars

\* an export finished without the keys: the chunks of both documents of the
\* indexed directory are in the file
C16_Witness ==
    /\ export_json
    /\ ~ have_keys
    /\ mpc = "done"
    /\ input_dir = "corpus_indexed"
    /\ indexed_dir = Docs
    /\ json_file = { all_paragraphs }
    /\ Len(all_paragraphs) = 2 * (batch_size + 1)
    /\ mainCalls = << 0, 0 >>

\* the user was asked and gave an answer that is neither y nor yes
Declined == confirmation # {} /\ confirmation \cap Confirmations = {}

(* C23: main takes a vector out of the index only by clear_index, which it *)
(* calls only when the index held vectors and the user answered y or yes,  *)
(* and before it lists or ingests any document. On any other answer the    *)
(* run ends at once: nothing is deleted, nothing is upserted, no embedding *)
(* is requested and no document is moved. When the index is empty the user *)
(* is not asked and the index is not cleared.                              *)
C23_ClearOnlyOnYes ==
    /\ [][
          (~ (store \subseteq store')) =>
              /\ mpc = "clear"
              /\ store' = {}
              /\ confirmation \cap Confirmations # {}
              /\ docx_files = << >>
              /\ embed_calls = 0
        ]_vars
    /\ [] ( mpc = "clear" =>
              /\ store # {}
              /\ confirmation \cap Confirmations # {} )
    /\ [][
          confirmation' # confirmation =>
              /\ mpc = "confirm"
              /\ store # {}
              /\ mpc' = IF confirmation' \cap Confirmations # {} THEN "clear" ELSE "done"
              /\ UNCHANGED << store, dirs, mainCalls >>
        ]_vars
    /\ [] ( Declined =>
              /\ mpc = "done"
              /\ store = { OldVector }
              /\ embed_calls = 0
              /\ docx_files = << >> )
    /\ [][ Declined => UNCHANGED << store, dirs, mainCalls >> ]_vars
    /\ [][
          (mpc = "stats" /\ store = {}) =>
              /\ mpc' \in { "glob", "raised" }
              /\ UNCHANGED << store, confirmation >>
        ]_vars
    /\ [] ( mpc \in { "glob", "doc", "embed" } =>
              (confirmation = {} \/ confirmation \cap Confirmations # {}) )

\* the run is over: the user answered yes, the old vector is gone and the
\* vectors of a document are in the index
C23_Witness ==
    /\ mpc = "done"
    /\ confirmation = { << "y", "e", "s" >> }
    /\ OldVector \notin store
    /\ \E d \in Range(docx_files) :
          /\ d \in indexed_dir
          /\ Upserted(d) # {}

====
